---- MODULE Spec2Model ----
(***************************************************************************)
(* Model of io_scene_xrm: the byte cursors (readers.py, writers.py), the   *)
(* SRM and TRM decoders (srm_parser.py, trm_parser.py) and the helpers of  *)
(* bpy_util_funcs.py they call.                                            *)
(*                                                                         *)
(* Python integers are unbounded and TLC's are 32 bit wide.  A value of a  *)
(* 8 or 16 bit struct code (B b H h) is a TLA+ integer; a value of a 32 or *)
(* 64 bit code (I i Q q) is the numeral [neg, mag]: its sign and the       *)
(* base-256 digits of its magnitude, most significant first, no leading    *)
(* zero.  A decoded float is the record of its IEEE-754 fields             *)
(* [sign, exp, frac].  The struct module's native mode (prefix "") is      *)
(* taken on a little-endian host, where the sizes of the codes used here   *)
(* equal the standard sizes.                                               *)
(***************************************************************************)
EXTENDS Integers, Sequences, FiniteSets, TLC

VARIABLES
    reader,     \* the Reader object: [offset, data, LE, length]
    rcall,      \* the last Reader call and its outcome
    rnew,       \* what the Reader was constructed over: [buf, LE]
    writer,     \* the Writer object: [offset, file, length, is_LE, raw]
    wcall,      \* the last Writer call and its outcome
    wnew,       \* what the Writer was constructed over
    whigh,      \* the highest offset a Writer write has ended at
    wcount,     \* the number of Writer writes made
    codec,      \* the decoder at work: "SRM", "TRM" or "none"
    pc,         \* where parse_model_file stands
    loc,        \* the local variables of parse_model_file
    mark,       \* the reader offsets at which the parts of the parse began
    mesh_data,  \* the parser object's mesh_data list
    model_data, \* the dict handed to build_mesh_from_data
    scene,      \* the Blender mesh object being built
    bpc,        \* where build_mesh_from_data stands
    bloc,       \* the local variables of build_mesh_from_data
    mesh_in     \* the mesh handed to the encoder, <<>> when there is none

rvars == <<reader, rcall, rnew>>
wvars == <<writer, wcall, wnew, whigh, wcount>>
dvars == <<codec, pc, loc, mark, mesh_data>>
bvars == <<model_data, scene, bpc, bloc>>
evars == <<mesh_in>>
vars == <<reader, rcall, rnew, writer, wcall, wnew, whigh, wcount, codec, pc,
          loc, mark, mesh_data, model_data, scene, bpc, bloc, mesh_in>>

(***************************************************************************)
(* Bounds of the model.                                                    *)
(***************************************************************************)
MaxBufLen == 16     \* length of the buffers handed to Reader
MaxOver == 2        \* how far seek/skip arguments reach outside the buffer
MaxRead == 3        \* largest length argument of read_bytes/read_string
MaxWrites == 2      \* number of writes made through one Writer
MaxPre == 4         \* length of the pre-existing buffer handed to Writer
MaxSeek == 2        \* largest position handed to Writer.seek

(***************************************************************************)
(* Bytes and digit arithmetic.                                             *)
(***************************************************************************)
Byte == 0..255

Reverse(s) == [i \in 1..Len(s) |-> s[Len(s) + 1 - i]]

Max(a, b) == IF a >= b THEN a ELSE b
Min(a, b) == IF a <= b THEN a ELSE b

RECURSIVE StripZeros(_)
StripZeros(d) == IF d # <<>> /\ d[1] = 0 THEN StripZeros(Tail(d)) ELSE d

RECURSIVE Horner(_, _)
Horner(acc, d) == IF d = <<>> THEN acc ELSE Horner(acc * 256 + d[1], Tail(d))

\* the numeral with the given sign and base-256 magnitude (msb first)
Num(neg, msb) ==
    LET d == StripZeros(msb) IN [neg |-> neg /\ d # <<>>, mag |-> d]

\* the TLA+ integer of a numeral that fits
ToInt(v) == IF v.neg THEN 0 - Horner(0, v.mag) ELSE Horner(0, v.mag)

Invert(d) == [i \in 1..Len(d) |-> 255 - d[i]]

\* d + 1 modulo 256^Len(d), digits msb first
RECURSIVE AddOne(_)
AddOne(d) ==
    IF d = <<>> THEN <<>>
    ELSE LET n == Len(d) IN
         IF d[n] < 255 THEN [d EXCEPT ![n] = d[n] + 1]
         ELSE Append(AddOne(SubSeq(d, 1, n - 1)), 0)

TwosComplement(d) == AddOne(Invert(d))

(***************************************************************************)
(* struct: format strings are [n |-> repeat count, c |-> type code].       *)
(***************************************************************************)
Fmt(n, c) == [n |-> n, c |-> c]
NoFmt == Fmt(0, "-")

IntCodes == {"B", "b", "H", "h", "I", "i", "Q", "q"}
SignedCodes == {"b", "h", "i", "q"}
WideCodes == {"I", "i", "Q", "q"}
FloatCodes == {"e", "f"}

CodeSize(c) ==
    CASE c \in {"B", "b", "s"} -> 1
      [] c \in {"H", "h", "e"} -> 2
      [] c \in {"I", "i", "f"} -> 4
      [] c \in {"Q", "q"} -> 8

calcsize_wrong(fmt) == CodeSize(fmt.c)

calcsize(fmt) == fmt.n * CodeSize(fmt.c)

\* one item of type code c from its bytes in buffer order
UnpackItem(c, bs, le) ==
    LET msb == IF le THEN Reverse(bs) ELSE bs
        neg == c \in SignedCodes /\ msb[1] >= 128
        v == Num(neg, IF neg THEN TwosComplement(msb) ELSE msb)
    IN
    CASE c \in WideCodes -> v
      [] c \in IntCodes \ WideCodes -> ToInt(v)
      [] c = "e" -> [sign |-> msb[1] \div 128,
                     exp |-> (msb[1] \div 4) % 32,
                     frac |-> (msb[1] % 4) * 256 + msb[2]]
      [] c = "f" -> [sign |-> msb[1] \div 128,
                     exp |-> (msb[1] % 128) * 2 + (msb[2] \div 128),
                     frac |-> (msb[2] % 128) * 65536 + msb[3] * 256 + msb[4]]

\* struct.unpack_from(prefix + fmt, data, offset): [raised, value]
unpack_from(fmt, le, data, offset) ==
    LET size == calcsize(fmt)
        w == CodeSize(fmt.c)
        n == Len(data)
        start == IF offset < 0 THEN offset + n ELSE offset
    IN  IF \/ (offset < 0 /\ (offset + size > 0 \/ offset + n < 0))
           \/ n - start < size
        THEN [raised |-> TRUE, value |-> <<>>]
        ELSE [raised |-> FALSE,
              value |-> [j \in 1..fmt.n |->
                  UnpackItem(fmt.c,
                             SubSeq(data, start + (j - 1) * w + 1, start + j * w),
                             le)]]

(***************************************************************************)
(* Python slicing and UTF-8 decoding, as used by read_bytes/read_string.   *)
(***************************************************************************)
SliceIndex(i, n) == IF i < 0 THEN Max(i + n, 0) ELSE Min(i, n)

PySlice(s, a, b) ==
    LET lo == SliceIndex(a, Len(s))
        hi == SliceIndex(b, Len(s))
    IN  IF lo < hi THEN SubSeq(s, lo + 1, hi) ELSE <<>>

IsCont(b) == b >= 128 /\ b <= 191

\* bytes.decode(): [raised, value], value the sequence of code points
RECURSIVE Utf8Decode(_, _)
Utf8Decode(bs, acc) ==
    IF bs = <<>> THEN [raised |-> FALSE, value |-> acc]
    ELSE LET b == bs[1]
             n == Len(bs)
         IN
         IF b < 128 THEN Utf8Decode(Tail(bs), Append(acc, b))
         ELSE IF b >= 194 /\ b <= 223 /\ n >= 2 /\ IsCont(bs[2])
         THEN Utf8Decode(SubSeq(bs, 3, n),
                         Append(acc, (b % 32) * 64 + (bs[2] % 64)))
         ELSE IF /\ b >= 224 /\ b <= 239 /\ n >= 3
                 /\ IsCont(bs[2]) /\ IsCont(bs[3])
                 /\ (b = 224 => bs[2] >= 160)
                 /\ (b = 237 => bs[2] <= 159)
         THEN Utf8Decode(SubSeq(bs, 4, n),
                         Append(acc, (b % 16) * 4096 + (bs[2] % 64) * 64
                                     + (bs[3] % 64)))
         ELSE IF /\ b >= 240 /\ b <= 244 /\ n >= 4
                 /\ IsCont(bs[2]) /\ IsCont(bs[3]) /\ IsCont(bs[4])
                 /\ (b = 240 => bs[2] >= 144)
                 /\ (b = 244 => bs[2] <= 143)
         THEN Utf8Decode(SubSeq(bs, 5, n),
                         Append(acc, (b % 8) * 262144 + (bs[2] % 64) * 4096
                                     + (bs[3] % 64) * 64 + (bs[4] % 64)))
         ELSE [raised |-> TRUE, value |-> <<>>]

(***************************************************************************)
(* Reader (readers.py).                                                    *)
(***************************************************************************)
NewReader(buf, is_little_endian) ==
    [offset |-> 0, data |-> buf, LE |-> is_little_endian, length |-> Len(buf)]

\* Reader.read: [reader, raised, value]
ReaderRead(r, fmt) ==
    LET u == unpack_from(fmt, r.LE, r.data, r.offset) IN
    IF u.raised THEN [reader |-> r, raised |-> TRUE, value |-> <<>>]
    ELSE [reader |-> [r EXCEPT !.offset = r.offset + calcsize(fmt)],
          raised |-> FALSE, value |-> u.value]

ReaderReadBytesAt(r, offset, length) ==
    PySlice(r.data, r.offset + offset, r.offset + offset + length)

ReaderReadBytes(r, length) ==
    [reader |-> [r EXCEPT !.offset = r.offset + length],
     raised |-> FALSE,
     value |-> ReaderReadBytesAt(r, 0, length)]

ReaderReadString(r, length) ==
    LET b == ReaderReadBytes(r, length)
        s == Utf8Decode(b.value, <<>>)
    IN  [reader |-> b.reader, raised |-> s.raised, value |-> s.value]

\* the scalar methods return element [0] of the tuple read
ReaderScalar(r, c) ==
    LET x == ReaderRead(r, Fmt(1, c)) IN
    IF x.raised THEN x ELSE [x EXCEPT !.value = x.value[1]]

ScalarFmts == {Fmt(1, c) : c \in IntCodes \cup FloatCodes}

VectorFmts ==
    {Fmt(2, "e"), Fmt(2, "f"), Fmt(2, "i"), Fmt(2, "I"), Fmt(3, "i"),
     Fmt(3, "I"), Fmt(3, "f"), Fmt(4, "f"), Fmt(3, "b"), Fmt(3, "B"),
     Fmt(4, "b"), Fmt(4, "B"), Fmt(2, "h"), Fmt(2, "H"), Fmt(3, "h"),
     Fmt(3, "H")}

Call(op, fmt, at, n, raised, value) ==
    [op |-> op, fmt |-> fmt, at |-> at, n |-> n, raised |-> raised,
     value |-> value]

NoCall == Call("new", NoFmt, 0, 0, FALSE, <<>>)

(***************************************************************************)
(* The local variables of parse_model_file (srm_parser.py, trm_parser.py). *)
(* A local that is not bound yet holds <<>>; constant, bound in the vertex *)
(* loop only, holds <<c>> once bound.  i counts the iterations of the loop *)
(* the parse stands in.                                                    *)
(***************************************************************************)
NoLocals ==
    [magic |-> <<>>, shaderCount |-> <<>>, textureCount |-> <<>>,
     textures |-> <<>>, zero_count |-> 0, zero_count_2 |-> 0,
     header_unk_floats |-> <<>>, header_unk_bytes |-> <<>>,
     faceCount |-> <<>>, vertexCount |-> <<>>, faces |-> <<>>,
     vertices |-> <<>>, normals |-> <<>>, tangents |-> <<>>,
     constant |-> <<>>, material_index |-> <<>>, bone_indices |-> <<>>,
     bone_weights |-> <<>>, uv |-> <<>>, i |-> 0]

NoMarks ==
    [scan1 |-> 0 - 1, end1 |-> 0 - 1, scan2 |-> 0 - 1, end2 |-> 0 - 1,
     face0 |-> 0 - 1, face_end |-> 0 - 1, vert0 |-> 0 - 1, unk0 |-> 0 - 1]

IdleDecoder ==
    /\ codec = "none"
    /\ pc = "idle"
    /\ loc = NoLocals
    /\ mark = NoMarks
    /\ mesh_data = <<>>

\* a mesh object without geometry, groups or material slots
NoScene ==
    [polygons |-> <<>>, uv_layer |-> <<>>, vertex_groups |-> <<>>,
     data_materials |-> <<>>, materials |-> <<>>]

NoModelData ==
    [vertices |-> <<>>, faces |-> <<>>, normals |-> <<>>, uv_map |-> <<>>,
     bone_indices |-> <<>>, bone_weights |-> <<>>, textures |-> <<>>,
     material_index |-> <<>>]

NoBuildLocals == [i |-> 0, materials |-> <<>>]

IdleImport ==
    /\ model_data = NoModelData
    /\ scene = NoScene
    /\ bpc = "idle"
    /\ bloc = NoBuildLocals

(***************************************************************************)
(* bpy_util_funcs.py                                                       *)
(***************************************************************************)
reverse_vector_same(vector) == vector

reverse_vector(vector) == Reverse(vector)

convert_vertex_normal_unit(nx, ny, nz) ==
    <<(nx - 127) \div 127, (ny - 127) \div 127, (nz - 127) \div 127>>

convert_vertex_normal(nx, ny, nz) == <<nx - 127, ny - 127, nz - 127>>

(***************************************************************************)
(* Steps shared by the two decoders (their code is the same text).         *)
(***************************************************************************)
\* successive Reader.read calls, stopping at the first that raises
RECURSIVE ReadAll(_, _, _)
ReadAll(r, fmts, acc) ==
    IF fmts = <<>> THEN [reader |-> r, raised |-> FALSE, value |-> acc]
    ELSE LET x == ReaderRead(r, fmts[1]) IN
         IF x.raised THEN [reader |-> x.reader, raised |-> TRUE, value |-> acc]
         ELSE ReadAll(x.reader, Tail(fmts), Append(acc, x.value))

\* does a u32 numeral fit a TLA+ integer ?
Fits(v) == Len(v.mag) < 4 \/ v.mag[1] < 128

\* i < count, the test of `for _ in range(count)`
InRangeOf_short(i, count) ==
    IF Fits(count) THEN i + 1 < ToInt(count) ELSE TRUE

InRangeOf(i, count) == IF Fits(count) THEN i < ToInt(count) ELSE TRUE

\* i < faceCount // 3; a faceCount of 2^31 or more is above 3 * i for any
\* i a buffer allows
InFaceRange_all(i, faceCount) ==
    IF Fits(faceCount) THEN i < ToInt(faceCount) ELSE TRUE

InFaceRange(i, faceCount) ==
    IF Fits(faceCount) THEN i < ToInt(faceCount) \div 3 ELSE TRUE

\* one shader record: uint32, vec4f and six uint32
ShaderFmts ==
    <<Fmt(1, "I"), Fmt(4, "f"), Fmt(1, "I"), Fmt(1, "I"), Fmt(1, "I"),
      Fmt(1, "I"), Fmt(1, "I"), Fmt(1, "I")>>

\* one pass of `while reader.offset < reader.length` of a zero scan:
\* [reader, zero_count, done]
ZeroScanStep_norewind(r, zero_count) ==
    IF ~(r.offset < r.length)
    THEN [reader |-> r, zero_count |-> zero_count, done |-> TRUE]
    ELSE LET x == ReaderScalar(r, "B") IN
         IF x.value # 0
         THEN [reader |-> x.reader, zero_count |-> zero_count, done |-> TRUE]
         ELSE [reader |-> x.reader, zero_count |-> zero_count + 1,
               done |-> FALSE]

ZeroScanStep_early(r, zero_count) ==
    IF ~(r.offset + 1 < r.length)
    THEN [reader |-> r, zero_count |-> zero_count, done |-> TRUE]
    ELSE LET x == ReaderScalar(r, "B") IN
         IF x.value # 0
         THEN [reader |-> [x.reader EXCEPT !.offset = x.reader.offset - 1],
               zero_count |-> zero_count, done |-> TRUE]
         ELSE [reader |-> x.reader, zero_count |-> zero_count + 1,
               done |-> FALSE]

ZeroScanStep(r, zero_count) ==
    IF ~(r.offset < r.length)
    THEN [reader |-> r, zero_count |-> zero_count, done |-> TRUE]
    ELSE LET x == ReaderScalar(r, "B") IN
         IF x.value # 0
         THEN [reader |-> [x.reader EXCEPT !.offset = x.reader.offset - 1],
               zero_count |-> zero_count, done |-> TRUE]
         ELSE [reader |-> x.reader, zero_count |-> zero_count + 1,
               done |-> FALSE]

\* ubyte() / 255.0 and 1 - ubyte() / 255.0, as fractions <<num, den>>
UCoord(b) == <<b, 255>>

VCoord_noflip(b) == <<b, 255>>

VCoord(b) == <<255 - b, 255>>

\* str(n) of a non-negative integer: its decimal digits as code points
RECURSIVE Str(_)
Str(n) == IF n < 10 THEN <<48 + n>> ELSE Append(Str(n \div 10), 48 + (n % 10))

\* an exception leaves parse_model_file: mesh_data keeps what it held
\* a failure that stores what was decoded so far
Fail_partial(r) ==
    /\ reader' = r
    /\ pc' = "raised"
    /\ mesh_data' = <<[vertices |-> loc.vertices, faces |-> loc.faces]>>
    /\ UNCHANGED <<codec, loc, mark>>

Fail(r) ==
    /\ reader' = r
    /\ pc' = "raised"
    /\ UNCHANGED <<codec, loc, mark, mesh_data>>

(***************************************************************************)
(* The buffers a Reader is constructed over.                               *)
(***************************************************************************)
PatA(i) == (i * 37 + 91) % 256
PatB(i) == 255
PatC(i) == CASE i % 4 = 1 -> 65 [] i % 4 = 2 -> 195 [] i % 4 = 3 -> 169
             [] OTHER -> 128

Buffers ==
    {<<>>} \cup {[i \in 1..MaxBufLen |-> PatA(i)],
                 [i \in 1..MaxBufLen |-> PatB(i)],
                 [i \in 1..MaxBufLen |-> PatC(i)]}

(***************************************************************************)
(* struct.pack, for the integer codes.                                     *)
(***************************************************************************)
Abs(v) == IF v < 0 THEN 0 - v ELSE v

\* base-256 digits (msb first, 4 of them) of an integer below 2^31
IntDigits(v) ==
    <<(v \div 16777216) % 256, (v \div 65536) % 256, (v \div 256) % 256,
      v % 256>>

\* the numeral of a value of code c
AsNum(c, v) == IF c \in WideCodes THEN v ELSE Num(v < 0, IntDigits(Abs(v)))

Zeros(n) == [i \in 1..n |-> 0]

\* the magnitude 2^(8w-1), the one negative magnitude with the top bit set
MinMag(w) == <<128>> \o Zeros(w - 1)

\* struct's range check of value v for code c
InRange(c, v) ==
    LET w == CodeSize(c)
        x == AsNum(c, v)
        m == x.mag
    IN  IF c \in SignedCodes
        THEN \/ Len(m) < w
             \/ Len(m) = w /\ m[1] < 128
             \/ Len(m) = w /\ x.neg /\ m = MinMag(w)
        ELSE ~x.neg /\ Len(m) <= w

\* the bytes of one in-range item, in buffer order
PackItem(c, v, le) ==
    LET w == CodeSize(c)
        x == AsNum(c, v)
        padded == Zeros(w - Len(x.mag)) \o x.mag
        msb == IF x.neg THEN TwosComplement(padded) ELSE padded
    IN  IF le THEN Reverse(msb) ELSE msb

RECURSIVE Concat(_)
Concat(ss) == IF ss = <<>> THEN <<>> ELSE ss[1] \o Concat(Tail(ss))

\* struct.pack(prefix + fmt, *args): [raised, bytes]
\* struct.pack of "<n>s": one bytes argument, cut or NUL padded to n bytes
PackBytes(n, b) == [j \in 1..n |-> IF j <= Len(b) THEN b[j] ELSE 0]

pack(fmt, le, args) ==
    IF fmt.c = "s"
    THEN (IF Len(args) # 1 THEN [raised |-> TRUE, bytes |-> <<>>]
          ELSE [raised |-> FALSE, bytes |-> PackBytes(fmt.n, args[1])])
    ELSE
    IF Len(args) # fmt.n \/ \E j \in 1..Len(args) : ~InRange(fmt.c, args[j])
    THEN [raised |-> TRUE, bytes |-> <<>>]
    ELSE [raised |-> FALSE,
          bytes |-> Concat([j \in 1..fmt.n |-> PackItem(fmt.c, args[j], le)])]

(***************************************************************************)
(* Writer (writers.py).  file is the sink: [kind, bytes, pos], a bytearray *)
(* or a binary stream with its own position.                               *)
(***************************************************************************)
ByteArray(bs) == [kind |-> "bytearray", bytes |-> bs, pos |-> 0]
Stream(bs) == [kind |-> "stream", bytes |-> bs, pos |-> 0]

None == [kind |-> "None", bytes |-> <<>>, pos |-> 0]

IsByteArray(f) == f.kind = "bytearray"

\* Writer(output_file): output_file None gives a fresh bytearray
NewWriter(output_file, is_little_endian) ==
    LET file == IF output_file = None THEN ByteArray(<<>>) ELSE output_file
    IN  [offset |-> 0, file |-> file, length |-> 0,
         is_LE |-> is_little_endian, raw |-> IsByteArray(file)]

\* bytearray.extend
Extend(f, packed) == [f EXCEPT !.bytes = f.bytes \o packed]

\* bytearray item assignment, byte by byte from the given offset
StoreAt(f, offset, packed) ==
    [f EXCEPT !.bytes = [i \in 1..Len(f.bytes) |->
        IF i > offset /\ i <= offset + Len(packed)
        THEN packed[i - offset] ELSE f.bytes[i]]]

\* stream.write at the stream's position; a gap is filled with zero bytes
StreamWrite(f, packed) ==
    LET newlen == Max(Len(f.bytes), f.pos + Len(packed)) IN
    [f EXCEPT !.bytes = [i \in 1..newlen |->
                 IF i > f.pos /\ i <= f.pos + Len(packed)
                 THEN packed[i - f.pos]
                 ELSE IF i <= Len(f.bytes) THEN f.bytes[i] ELSE 0],
              !.pos = f.pos + Len(packed)]

WriterTell(w) == IF w.raw THEN w.offset ELSE w.file.pos

\* which sink branch of Writer.write is taken
WriteToSink(w, packed) ==
    IF IsByteArray(w.file) THEN Extend(w.file, packed)
    ELSE IF w.raw
    THEN (IF w.offset = Len(w.file.bytes) THEN Extend(w.file, packed)
          ELSE StoreAt(w.file, w.offset, packed))
    ELSE StreamWrite(w.file, packed)

\* Writer.write: [writer, raised, packed]
WriterWrite(w, fmt, args) ==
    LET p == pack(fmt, w.is_LE, args) IN
    IF p.raised THEN [writer |-> w, raised |-> TRUE, packed |-> <<>>]
    ELSE LET file == WriteToSink(w, p.bytes)
             offset == w.offset + calcsize(fmt)
         IN  [writer |-> [w EXCEPT !.file = file,
                                   !.offset = offset,
                                   !.length = IF IsByteArray(file)
                                              THEN Len(file.bytes)
                                              ELSE offset],
              raised |-> FALSE, packed |-> p.bytes]

\* Writer.seek: [writer, raised]; a stream refuses a negative position
WriterSeek(w, position) ==
    IF w.raw THEN [writer |-> [w EXCEPT !.offset = position], raised |-> FALSE]
    ELSE IF position < 0 THEN [writer |-> w, raised |-> TRUE]
    ELSE [writer |-> [w EXCEPT !.file.pos = position], raised |-> FALSE]

\* after_seek: the call made before this one was a seek that did not raise
WCall(op, fmt, args, at, before, raised, packed) ==
    [op |-> op, fmt |-> fmt, args |-> args, at |-> at, before |-> before,
     raised |-> raised, packed |-> packed,
     after_seek |-> wcall.op = "seek" /\ ~wcall.raised]

NoWCall ==
    [op |-> "new", fmt |-> NoFmt, args |-> <<>>, at |-> 0, before |-> <<>>,
     raised |-> FALSE, packed |-> <<>>, after_seek |-> FALSE]

\* the values written, per integer code: the ends of the range, values whose
\* bytes differ from one another, and values out of range
WriteValues(c) ==
    CASE c = "B" -> {7, 255, 256}
      [] c = "b" -> {0 - 128, 0 - 129}
      [] c = "H" -> {258}
      [] c = "h" -> {0 - 2}
      [] c = "I" -> {Num(FALSE, <<255, 255, 255, 254>>)}
      [] c = "i" -> {Num(TRUE, <<128, 0, 0, 0>>)}
      [] c = "Q" -> {Num(FALSE, <<1, 2, 3, 4, 5, 6, 7, 8>>)}
      [] c = "q" -> {Num(FALSE, <<127, 255, 255, 255, 255, 255, 255, 255>>)}

PreExisting == [i \in 1..MaxPre |-> 160 + i]

Sinks == {None, ByteArray(PreExisting), Stream(<<>>)}

IdleReader == NewReader(<<>>, TRUE)
IdleWriter == NewWriter(None, TRUE)

Init ==
    /\ \E buf \in Buffers, le \in BOOLEAN :
            /\ reader = NewReader(buf, le)
            /\ rnew = [buf |-> buf, LE |-> le]
    /\ rcall = NoCall
    /\ writer = IdleWriter
    /\ wcall = NoWCall
    /\ wnew = None
    /\ whigh = 0
    /\ wcount = 0
    /\ IdleDecoder
    /\ IdleImport
    /\ mesh_in = <<>>

Tell ==
    /\ rcall' = Call("tell", NoFmt, reader.offset, 0, FALSE, reader.offset)
    /\ UNCHANGED reader

Seek ==
    \E position \in (0 - MaxOver)..(reader.length + MaxOver) :
        /\ reader' = [reader EXCEPT !.offset = position]
        /\ rcall' = Call("seek", NoFmt, reader.offset, position, FALSE, <<>>)

Skip ==
    \E skip_by \in (0 - MaxOver)..MaxOver :
        /\ reader.offset + skip_by \in
               (0 - MaxOver)..(reader.length + MaxOver + MaxRead)
        /\ reader' = [reader EXCEPT !.offset = reader.offset + skip_by]
        /\ rcall' = Call("skip", NoFmt, reader.offset, skip_by, FALSE, <<>>)

ReadScalar ==
    \E fmt \in ScalarFmts :
        LET x == ReaderScalar(reader, fmt.c) IN
        /\ reader' = x.reader
        /\ rcall' = Call("scalar", fmt, reader.offset, calcsize(fmt),
                         x.raised, x.value)

ReadVector ==
    \E fmt \in VectorFmts :
        LET x == ReaderRead(reader, fmt) IN
        /\ reader' = x.reader
        /\ rcall' = Call("vector", fmt, reader.offset, calcsize(fmt),
                         x.raised, x.value)

ReadBytes ==
    \E n \in 0..MaxRead :
        LET x == ReaderReadBytes(reader, n) IN
        /\ reader.offset + n <= reader.length + MaxOver + MaxRead
        /\ reader' = x.reader
        /\ rcall' = Call("read_bytes", NoFmt, reader.offset, n, x.raised,
                         x.value)

ReadString ==
    \E n \in 0..MaxRead :
        LET x == ReaderReadString(reader, n) IN
        /\ reader.offset + n <= reader.length + MaxOver + MaxRead
        /\ reader' = x.reader
        /\ rcall' = Call("read_string", NoFmt, reader.offset, n, x.raised,
                         x.value)

Next ==
    \/ ReadBytes /\ UNCHANGED <<rnew, wvars, dvars, bvars, evars>>
    \/ ReadString /\ UNCHANGED <<rnew, wvars, dvars, bvars, evars>>
    \/ ReadScalar /\ UNCHANGED <<rnew, wvars, dvars, bvars, evars>>
    \/ ReadVector /\ UNCHANGED <<rnew, wvars, dvars, bvars, evars>>
    \/ Tell /\ UNCHANGED <<rnew, wvars, dvars, bvars, evars>>
    \/ Skip /\ UNCHANGED <<rnew, wvars, dvars, bvars, evars>>
    \/ Seek /\ UNCHANGED <<rnew, wvars, dvars, bvars, evars>>

Spec == Init /\ [][Next]_vars

(***************************************************************************)
(* Claims about the Reader.                                                *)
(***************************************************************************)
ReadOps == {"scalar", "vector", "read_bytes", "read_string"}

\* C1: a Reader read (scalar, vector, read_bytes, read_string) that would
\* cross the end of the buffer (offset + width > length) fails with an
\* error and returns no value.
C1_ReadPastEndFails ==
    (rcall.op \in ReadOps /\ rcall.at + rcall.n > reader.length)
        => rcall.raised

\* C2: after any sequence of Reader operations 0 <= offset <= length, and
\* the buffer, its length and the endianness flag are as at construction.
C2_CursorInBounds ==
    /\ 0 <= reader.offset /\ reader.offset <= reader.length
    /\ reader.data = rnew.buf
    /\ reader.length = Len(rnew.buf)
    /\ reader.LE = rnew.LE

\* the byte width of each decoded type, as the claim lists them
TypeWidth(c) ==
    CASE c \in {"B", "b"} -> 1
      [] c \in {"H", "h", "e"} -> 2
      [] c \in {"I", "i", "f"} -> 4
      [] c \in {"Q", "q"} -> 8

\* the bytes (most significant first) a decoded float stands for
FloatBits(c, v) ==
    IF c = "e"
    THEN <<v.sign * 128 + v.exp * 4 + (v.frac \div 256), v.frac % 256>>
    ELSE <<v.sign * 128 + (v.exp \div 2),
           (v.exp % 2) * 128 + (v.frac \div 65536),
           (v.frac \div 256) % 256, v.frac % 256>>

\* the bytes (in buffer order) a decoded item stands for
ItemBytes(c, v, le) ==
    IF c \in FloatCodes
    THEN (IF le THEN Reverse(FloatBits(c, v)) ELSE FloatBits(c, v))
    ELSE PackItem(c, v, le)

\* C3: a successful scalar or vector read advances offset by exactly the
\* byte width of the decoded type (width * N for a vector), and the value
\* it returns is the one held by the bytes of the buffer at the offset of
\* the call, in the Reader's endianness: component j stands for exactly
\* the bytes at + (j-1)*width .. at + j*width - 1.
C3_ReadAdvancesByWidth ==
    (rcall.op \in {"scalar", "vector"} /\ ~rcall.raised) =>
        LET c == rcall.fmt.c
            w == TypeWidth(c)
            at == IF rcall.at < 0 THEN rcall.at + reader.length ELSE rcall.at
            items == IF rcall.op = "scalar" THEN <<rcall.value>>
                     ELSE rcall.value
        IN  /\ reader.offset = rcall.at + rcall.fmt.n * w
            /\ Len(items) = rcall.fmt.n
            /\ \A j \in 1..rcall.fmt.n :
                   ItemBytes(c, items[j], reader.LE)
                       = SubSeq(reader.data, at + (j - 1) * w + 1, at + j * w)
            /\ reader.data = rnew.buf /\ reader.LE = rnew.LE

\* C3 witness: a big-endian three-component read made away from offset 0,
\* and an 8 byte scalar read.
C3_Witness ==
    /\ rcall.op = "vector" /\ ~rcall.raised
    /\ rcall.fmt = Fmt(3, "H") /\ rcall.at = 2 /\ reader.offset = 8
    /\ ~reader.LE /\ rcall.value = <<PatA(3) * 256 + PatA(4),
                                     PatA(5) * 256 + PatA(6),
                                     PatA(7) * 256 + PatA(8)>>

(***************************************************************************)
(* The Writer driven by any sequence of its calls.                         *)
(***************************************************************************)
InitWriter ==
    /\ \E sink \in Sinks, le \in BOOLEAN :
            /\ writer = NewWriter(sink, le)
            /\ wnew = sink
    /\ wcall = NoWCall
    /\ whigh = 0
    /\ wcount = 0
    /\ reader = IdleReader
    /\ rnew = [buf |-> <<>>, LE |-> TRUE]
    /\ rcall = NoCall
    /\ IdleDecoder
    /\ IdleImport
    /\ mesh_in = <<>>

WTell ==
    /\ wcall' = WCall("tell", NoFmt, <<WriterTell(writer)>>, 0, <<>>, FALSE,
                      <<>>)
    /\ UNCHANGED <<writer, wnew, whigh, wcount>>

WSeek ==
    \E position \in (0 - 1)..MaxSeek :
        LET x == WriterSeek(writer, position) IN
        /\ writer' = x.writer
        /\ wcall' = WCall("seek", NoFmt, <<>>, 0, <<>>, x.raised, <<>>)
        /\ UNCHANGED <<wnew, whigh, wcount>>

WScalar ==
    \E c \in IntCodes : \E value \in WriteValues(c) :
        LET x == WriterWrite(writer, Fmt(1, c), <<value>>) IN
        /\ wcount < MaxWrites
        /\ writer' = x.writer
        /\ wcall' = WCall("write", Fmt(1, c), <<value>>, WriterTell(writer),
                          writer.file.bytes, x.raised, x.packed)
        /\ whigh' = IF x.raised THEN whigh
                    ELSE Max(whigh, WriterTell(writer) + Len(x.packed))
        /\ wcount' = wcount + 1
        /\ UNCHANGED wnew

\* str.encode('ascii'): [raised, bytes]
AsciiEncode(text) ==
    IF \E j \in 1..Len(text) : text[j] >= 128
    THEN [raised |-> TRUE, bytes |-> <<>>]
    ELSE [raised |-> FALSE, bytes |-> text]

\* Writer.ascii_string: [writer, raised, packed]
WriterAsciiString(w, text) ==
    LET encoded == AsciiEncode(text) IN
    IF encoded.raised THEN [writer |-> w, raised |-> TRUE, packed |-> <<>>]
    ELSE WriterWrite(w, Fmt(Len(encoded.bytes), "s"), <<encoded.bytes>>)

\* Writer.num_string: [writer, raised, packed]; the length is written before
\* the text is encoded
WriterNumString(w, text) ==
    LET a == WriterWrite(w, Fmt(1, "I"), <<Num(FALSE, IntDigits(Len(text)))>>)
    IN  IF a.raised THEN a
        ELSE LET b == WriterAsciiString(a.writer, text) IN
             [writer |-> b.writer, raised |-> b.raised,
              packed |-> a.packed \o b.packed]

\* the strings written: empty, ASCII with a blank, and one that is not ASCII
Texts == {<<>>, <<97>>, <<97, 32, 98>>, <<99, 233>>}

\* the widths a caller declares for a string field
MaxWidth == 4

WAsciiString ==
    \E text \in Texts : \E width \in {Len(text), MaxWidth - 2, MaxWidth} :
        LET x == WriterAsciiString(writer, text) IN
        /\ wcount < MaxWrites
        /\ writer' = x.writer
        /\ wcall' = WCall("ascii_string", Fmt(width, "s"), <<text>>,
                          WriterTell(writer), writer.file.bytes, x.raised,
                          x.packed)
        /\ whigh' = IF x.raised THEN whigh
                    ELSE Max(whigh, WriterTell(writer) + Len(x.packed))
        /\ wcount' = wcount + 1
        /\ UNCHANGED wnew

WNumString ==
    \E text \in Texts :
        LET x == WriterNumString(writer, text) IN
        /\ wcount < MaxWrites
        /\ writer' = x.writer
        /\ wcall' = WCall("num_string", NoFmt, <<text>>, WriterTell(writer),
                          writer.file.bytes, x.raised, x.packed)
        /\ whigh' = Max(whigh, WriterTell(writer) + Len(x.packed))
        /\ wcount' = wcount + 1
        /\ UNCHANGED wnew

\* a method of a class body: its name and the format it packs or unpacks
Def(name, n, c) == [name |-> name, fmt |-> Fmt(n, c)]

ScalarDefs ==
    <<Def("ubyte", 1, "B"), Def("byte", 1, "b"), Def("ushort", 1, "H"),
      Def("short", 1, "h"), Def("uint32", 1, "I"), Def("int32", 1, "i"),
      Def("uint64", 1, "Q"), Def("int64", 1, "q"), Def("hfloat16", 1, "e"),
      Def("float32", 1, "f")>>

\* the scalar and vector methods of Reader, in the order of the class body
ReaderDefs ==
    ScalarDefs \o
    <<Def("vec2hf", 2, "e"), Def("vec2f", 2, "f"), Def("vec2si", 2, "i"),
      Def("vec2ui", 2, "I"), Def("vec3si", 3, "i"), Def("vec3ui", 3, "I"),
      Def("vec3f", 3, "f"), Def("vec4f", 4, "f"), Def("vec3sb", 3, "b"),
      Def("vec3ub", 3, "B"), Def("vec4sb", 4, "b"), Def("vec4ub", 4, "B"),
      Def("vec2ss", 2, "h"), Def("vec2us", 2, "H"), Def("vec3ss", 3, "h"),
      Def("vec3us", 3, "H")>>

\* the scalar and vector methods of Writer, in the order of the class body:
\* vec3sb is defined twice
WriterDefs ==
    ScalarDefs \o
    <<Def("vec2hf", 2, "e"), Def("vec2f", 2, "f"), Def("vec2si", 2, "i"),
      Def("vec2ui", 2, "I"), Def("vec3si", 3, "i"), Def("vec3ui", 3, "I"),
      Def("vec3f", 3, "f"), Def("vec4f", 4, "f"), Def("vec3sb", 3, "b"),
      Def("vec3sb", 3, "B"), Def("vec4sb", 4, "b"), Def("vec4ub", 4, "B"),
      Def("vec2ss", 2, "h"), Def("vec2us", 2, "H"), Def("vec3ss", 3, "h"),
      Def("vec3us", 3, "H")>>

HasMethod(defs, name) == \E k \in 1..Len(defs) : defs[k].name = name

\* attribute lookup: a later def of a class body rebinds the name
Method(defs, name) ==
    LET ks == {k \in 1..Len(defs) : defs[k].name = name}
    IN  defs[CHOOSE k \in ks : \A m \in ks : m <= k]

\* a call of the Writer method `name`: [writer, raised, packed, fmt]; a name
\* the class does not have raises AttributeError
WriterCall(w, name, args) ==
    IF ~HasMethod(WriterDefs, name)
    THEN [writer |-> w, raised |-> TRUE, packed |-> <<>>, fmt |-> NoFmt]
    ELSE LET fmt == Method(WriterDefs, name).fmt
             x == WriterWrite(w, fmt, args)
         IN  [writer |-> x.writer, raised |-> x.raised, packed |-> x.packed,
              fmt |-> fmt]

\* the byte triples written: signed ones with the ends of the range, and
\* unsigned ones
Triples == {<<0 - 128, 0 - 1, 127>>, <<0, 1, 127>>, <<0, 128, 255>>}

WVector ==
    \E name \in {"vec3sb", "vec3ub"} : \E value \in Triples :
        LET x == WriterCall(writer, name, value) IN
        /\ wcount < MaxWrites
        /\ writer' = x.writer
        /\ wcall' = WCall(name, x.fmt, value, WriterTell(writer),
                          writer.file.bytes, x.raised, x.packed)
        /\ whigh' = IF x.raised THEN whigh
                    ELSE Max(whigh, WriterTell(writer) + Len(x.packed))
        /\ wcount' = wcount + 1
        /\ UNCHANGED wnew

NextWriter ==
    \/ WVector /\ UNCHANGED <<rvars, dvars, bvars, evars>>
    \/ WTell /\ UNCHANGED <<rvars, dvars, bvars, evars>>
    \/ WSeek /\ UNCHANGED <<rvars, dvars, bvars, evars>>
    \/ WScalar /\ UNCHANGED <<rvars, dvars, bvars, evars>>
    \/ WAsciiString /\ UNCHANGED <<rvars, dvars, bvars, evars>>
    \/ WNumString /\ UNCHANGED <<rvars, dvars, bvars, evars>>

SpecWriter == InitWriter /\ [][NextWriter]_vars

(***************************************************************************)
(* TRM.parse_model_file (trm_parser.py), one action per statement group or *)
(* loop pass.                                                              *)
(***************************************************************************)
TRM_Magic ==
    /\ codec = "TRM" /\ pc = "magic"
    /\ LET x == ReaderReadString(reader, 4) IN
       IF x.raised THEN Fail(x.reader)
       ELSE /\ reader' = x.reader
            /\ loc' = [loc EXCEPT !.magic = x.value]
            /\ pc' = "shaderCount"
            /\ UNCHANGED <<codec, mark, mesh_data>>

TRM_ShaderCount ==
    /\ codec = "TRM" /\ pc = "shaderCount"
    /\ LET x == ReaderScalar(reader, "I") IN
       IF x.raised THEN Fail(x.reader)
       ELSE /\ reader' = x.reader
            /\ loc' = [loc EXCEPT !.shaderCount = x.value, !.i = 0]
            /\ pc' = "shader"
            /\ UNCHANGED <<codec, mark, mesh_data>>

TRM_Shader ==
    /\ codec = "TRM" /\ pc = "shader"
    /\ IF InRangeOf(loc.i, loc.shaderCount)
       THEN LET x == ReadAll(reader, ShaderFmts, <<>>) IN
            IF x.raised THEN Fail(x.reader)
            ELSE /\ reader' = x.reader
                 /\ loc' = [loc EXCEPT !.i = loc.i + 1]
                 /\ UNCHANGED <<codec, pc, mark, mesh_data>>
       ELSE /\ pc' = "textureCount"
            /\ UNCHANGED <<reader, codec, loc, mark, mesh_data>>

TRM_TextureCount ==
    /\ codec = "TRM" /\ pc = "textureCount"
    /\ LET x == ReaderScalar(reader, "I") IN
       IF x.raised THEN Fail(x.reader)
       ELSE /\ reader' = x.reader
            /\ loc' = [loc EXCEPT !.textureCount = x.value, !.textures = <<>>,
                                  !.i = 0]
            /\ pc' = "texture"
            /\ UNCHANGED <<codec, mark, mesh_data>>

TRM_Texture ==
    /\ codec = "TRM" /\ pc = "texture"
    /\ IF InRangeOf(loc.i, loc.textureCount)
       THEN LET x == ReaderScalar(reader, "H") IN
            IF x.raised THEN Fail(x.reader)
            ELSE /\ reader' = x.reader
                 /\ loc' = [loc EXCEPT
                               !.textures = Append(loc.textures, Str(x.value)),
                               !.i = loc.i + 1]
                 /\ UNCHANGED <<codec, pc, mark, mesh_data>>
       ELSE /\ pc' = "scan1"
            /\ loc' = [loc EXCEPT !.zero_count = 0]
            /\ mark' = [mark EXCEPT !.scan1 = reader.offset]
            /\ UNCHANGED <<reader, codec, mesh_data>>

TRM_ZeroScan1 ==
    /\ codec = "TRM" /\ pc = "scan1"
    /\ LET x == ZeroScanStep(reader, loc.zero_count) IN
       /\ reader' = x.reader
       /\ loc' = [loc EXCEPT !.zero_count = x.zero_count]
       /\ pc' = IF x.done THEN "faceCount" ELSE "scan1"
       /\ mark' = IF x.done THEN [mark EXCEPT !.end1 = x.reader.offset]
                  ELSE mark
       /\ UNCHANGED <<codec, mesh_data>>

TRM_FaceCount ==
    /\ codec = "TRM" /\ pc = "faceCount"
    /\ LET x == ReaderScalar(reader, "I") IN
       IF x.raised THEN Fail(x.reader)
       ELSE /\ reader' = x.reader
            /\ loc' = [loc EXCEPT !.faceCount = x.value]
            /\ pc' = "vertexCount"
            /\ UNCHANGED <<codec, mark, mesh_data>>

TRM_VertexCount ==
    /\ codec = "TRM" /\ pc = "vertexCount"
    /\ LET x == ReaderScalar(reader, "I") IN
       IF x.raised THEN Fail(x.reader)
       ELSE /\ reader' = x.reader
            /\ loc' = [loc EXCEPT !.vertexCount = x.value, !.faces = <<>>,
                                  !.i = 0]
            /\ pc' = "face"
            /\ mark' = [mark EXCEPT !.face0 = x.reader.offset]
            /\ UNCHANGED <<codec, mesh_data>>

TRM_Face ==
    /\ codec = "TRM" /\ pc = "face"
    /\ IF InFaceRange(loc.i, loc.faceCount)
       THEN LET x == ReaderRead(reader, Fmt(3, "H")) IN
            IF x.raised THEN Fail(x.reader)
            ELSE /\ reader' = x.reader
                 /\ loc' = [loc EXCEPT
                       !.faces = Append(loc.faces, reverse_vector(x.value)),
                       !.i = loc.i + 1]
                 /\ UNCHANGED <<codec, pc, mark, mesh_data>>
       ELSE /\ pc' = "scan2"
            /\ loc' = [loc EXCEPT !.zero_count_2 = 0]
            /\ mark' = [mark EXCEPT !.face_end = reader.offset,
                                    !.scan2 = reader.offset]
            /\ UNCHANGED <<reader, codec, mesh_data>>

TRM_ZeroScan2 ==
    /\ codec = "TRM" /\ pc = "scan2"
    /\ LET x == ZeroScanStep(reader, loc.zero_count_2) IN
       /\ reader' = x.reader
       /\ loc' = [loc EXCEPT !.zero_count_2 = x.zero_count,
                             !.i = IF x.done THEN 0 ELSE loc.i]
       /\ pc' = IF x.done THEN "vertex" ELSE "scan2"
       /\ mark' = IF x.done THEN [mark EXCEPT !.end2 = x.reader.offset,
                                              !.vert0 = x.reader.offset]
                  ELSE mark
       /\ UNCHANGED <<codec, mesh_data>>

\* one TRM vertex record: position, normal, material index, bone indices,
\* U, bone weights, V
TRMVertexFmts_half ==
    <<Fmt(3, "e"), Fmt(3, "B"), Fmt(1, "B"), Fmt(3, "B"), Fmt(1, "B"),
      Fmt(3, "B"), Fmt(1, "B")>>

TRMVertexFmts ==
    <<Fmt(3, "f"), Fmt(3, "B"), Fmt(1, "B"), Fmt(3, "B"), Fmt(1, "B"),
      Fmt(3, "B"), Fmt(1, "B")>>

TRM_Vertex ==
    /\ codec = "TRM" /\ pc = "vertex"
    /\ IF InRangeOf(loc.i, loc.vertexCount)
       THEN LET x == ReadAll(reader, TRMVertexFmts, <<>>) IN
            IF x.raised THEN Fail(x.reader)
            ELSE LET f == x.value
                     normal == convert_vertex_normal(f[2][1], f[2][2], f[2][3])
                 IN
                 /\ reader' = x.reader
                 /\ loc' = [loc EXCEPT
                       !.vertices = Append(loc.vertices, f[1]),
                       !.normals = Append(loc.normals, normal),
                       !.material_index = Append(loc.material_index, f[3][1]),
                       !.bone_indices = Append(loc.bone_indices, f[4]),
                       !.bone_weights = Append(loc.bone_weights, f[6]),
                       !.uv = Append(loc.uv,
                                     <<UCoord(f[5][1]), VCoord(f[7][1])>>),
                       !.i = loc.i + 1]
                 /\ UNCHANGED <<codec, pc, mark, mesh_data>>
       ELSE /\ pc' = "publish"
            /\ UNCHANGED <<reader, codec, loc, mark, mesh_data>>

TRM_Publish ==
    /\ codec = "TRM" /\ pc = "publish"
    /\ mesh_data' =
           <<[magic |-> loc.magic,
              vertex_count |-> loc.vertexCount,
              face_count |-> loc.faceCount,
              vertices |-> loc.vertices,
              uv_map |-> loc.uv,
              normals |-> loc.normals,
              faces |-> loc.faces,
              bone_indices |-> loc.bone_indices,
              bone_weights |-> loc.bone_weights,
              material_index |-> loc.material_index,
              textures |-> loc.textures]>>
    /\ pc' = "done"
    /\ UNCHANGED <<reader, codec, loc, mark>>

\* [reader.<scalar>() for _ in range(count)]: `count` successive scalar
\* reads of one type code, stopping at the first that raises
ScalarRun(r, c, count) ==
    LET at(k) == [r EXCEPT !.offset = r.offset + (k - 1) * CodeSize(c)]
        bad == {k \in 1..count : ReaderScalar(at(k), c).raised}
    IN  IF bad = {}
        THEN [reader |-> at(count + 1), raised |-> FALSE,
              value |-> [k \in 1..count |-> ReaderScalar(at(k), c).value]]
        ELSE [reader |-> at(CHOOSE k \in bad : \A m \in bad : k <= m),
              raised |-> TRUE, value |-> <<>>]

(***************************************************************************)
(* SRM.parse_model_file (srm_parser.py).                                   *)
(***************************************************************************)
NameLen == 31           \* bytes of a texture name
UnkFloatCount == 384    \* floats of the unknown header block
UnkByteCount == 128     \* bytes of the unknown header block
ReservedLen == 4        \* reserved bytes skipped

\* str.isspace and str.isprintable of a code point (below 256; above, the
\* Unicode separators)
IsSpace(c) ==
    c \in {9, 10, 11, 12, 13, 28, 29, 30, 31, 32, 133, 160, 5760, 8232, 8233,
           8239, 8287, 12288} \/ (c >= 8192 /\ c <= 8202)

IsPrintable(c) ==
    \/ c >= 32 /\ c <= 126
    \/ c >= 161 /\ c # 173 /\ ~IsSpace(c)

RECURSIVE LStrip(_)
LStrip(t) == IF t # <<>> /\ IsSpace(t[1]) THEN LStrip(Tail(t)) ELSE t

\* str.strip(): whitespace removed at both ends
Strip(t) == Reverse(LStrip(Reverse(LStrip(t))))

RECURSIVE Printable(_)
Printable(t) ==
    IF t = <<>> THEN <<>>
    ELSE IF IsPrintable(t[1]) THEN <<t[1]>> \o Printable(Tail(t))
    ELSE Printable(Tail(t))

\* ''.join(c for c in texture.strip() if c.isprintable())
Sanitize(texture) == Printable(Strip(texture))

SRM_Magic ==
    /\ codec = "SRM" /\ pc = "magic"
    /\ LET x == ReaderReadString(reader, 4) IN
       IF x.raised THEN Fail(x.reader)
       ELSE /\ reader' = x.reader
            /\ loc' = [loc EXCEPT !.magic = x.value]
            /\ pc' = "shaderCount"
            /\ UNCHANGED <<codec, mark, mesh_data>>

SRM_ShaderCount ==
    /\ codec = "SRM" /\ pc = "shaderCount"
    /\ LET x == ReaderScalar(reader, "I") IN
       IF x.raised THEN Fail(x.reader)
       ELSE /\ reader' = x.reader
            /\ loc' = [loc EXCEPT !.shaderCount = x.value, !.i = 0]
            /\ pc' = "shader"
            /\ UNCHANGED <<codec, mark, mesh_data>>

SRM_Shader ==
    /\ codec = "SRM" /\ pc = "shader"
    /\ IF InRangeOf(loc.i, loc.shaderCount)
       THEN LET x == ReadAll(reader, ShaderFmts, <<>>) IN
            IF x.raised THEN Fail(x.reader)
            ELSE /\ reader' = x.reader
                 /\ loc' = [loc EXCEPT !.i = loc.i + 1]
                 /\ UNCHANGED <<codec, pc, mark, mesh_data>>
       ELSE /\ pc' = "textureCount"
            /\ UNCHANGED <<reader, codec, loc, mark, mesh_data>>

SRM_TextureCount ==
    /\ codec = "SRM" /\ pc = "textureCount"
    /\ LET x == ReaderScalar(reader, "I") IN
       IF x.raised THEN Fail(x.reader)
       ELSE /\ reader' = x.reader
            /\ loc' = [loc EXCEPT !.textureCount = x.value, !.textures = <<>>,
                                  !.i = 0]
            /\ pc' = "texture"
            /\ UNCHANGED <<codec, mark, mesh_data>>

\* one pass of the texture loop; after the loop, the 4 reserved bytes are
\* skipped
SRM_Texture ==
    /\ codec = "SRM" /\ pc = "texture"
    /\ IF InRangeOf(loc.i, loc.textureCount)
       THEN LET x == ReaderReadString(reader, NameLen) IN
            IF x.raised THEN Fail(x.reader)
            ELSE LET y == ReaderScalar(x.reader, "B") IN
                 IF y.raised THEN Fail(y.reader)
                 ELSE /\ reader' = y.reader
                      /\ loc' = [loc EXCEPT
                            !.textures = Append(loc.textures,
                                                Sanitize(x.value)),
                            !.i = loc.i + 1]
                      /\ UNCHANGED <<codec, pc, mark, mesh_data>>
       ELSE /\ reader' = [reader EXCEPT !.offset = reader.offset + ReservedLen]
            /\ pc' = "unk_floats"
            /\ mark' = [mark EXCEPT !.unk0 = reader.offset + ReservedLen]
            /\ UNCHANGED <<codec, loc, mesh_data>>

SRM_UnkFloats ==
    /\ codec = "SRM" /\ pc = "unk_floats"
    /\ LET x == ScalarRun(reader, "f", UnkFloatCount) IN
       IF x.raised THEN Fail(x.reader)
       ELSE /\ reader' = x.reader
            /\ loc' = [loc EXCEPT !.header_unk_floats = x.value]
            /\ pc' = "unk_bytes"
            /\ UNCHANGED <<codec, mark, mesh_data>>

SRM_UnkBytes ==
    /\ codec = "SRM" /\ pc = "unk_bytes"
    /\ LET x == ScalarRun(reader, "B", UnkByteCount) IN
       IF x.raised THEN Fail(x.reader)
       ELSE /\ reader' = x.reader
            /\ loc' = [loc EXCEPT !.header_unk_bytes = x.value]
            /\ pc' = "vertexCount"
            /\ UNCHANGED <<codec, mark, mesh_data>>

SRM_VertexCount ==
    /\ codec = "SRM" /\ pc = "vertexCount"
    /\ LET x == ReaderScalar(reader, "I") IN
       IF x.raised THEN Fail(x.reader)
       ELSE /\ reader' = x.reader
            /\ loc' = [loc EXCEPT !.vertexCount = x.value]
            /\ pc' = "faceCount"
            /\ UNCHANGED <<codec, mark, mesh_data>>

SRM_FaceCount ==
    /\ codec = "SRM" /\ pc = "faceCount"
    /\ LET x == ReaderScalar(reader, "I") IN
       IF x.raised THEN Fail(x.reader)
       ELSE /\ reader' = x.reader
            /\ loc' = [loc EXCEPT !.faceCount = x.value, !.i = 0]
            /\ pc' = "vertex"
            /\ mark' = [mark EXCEPT !.vert0 = x.reader.offset]
            /\ UNCHANGED <<codec, mesh_data>>

\* one SRM vertex record: position, tangent, constant, normal, material
\* index, bone indices, U, bone weights, V; 4 reserved bytes are skipped
\* `constant = reader.ubyte()` in the vertex loop: each pass rebinds the local
AssignConstant_first(old, byte) == IF old = <<>> THEN <<byte>> ELSE old

AssignConstant(old, byte) == <<byte>>

SRMVertexFmts_wide ==
    <<Fmt(3, "f"), Fmt(3, "B"), Fmt(1, "H"), Fmt(3, "B"), Fmt(1, "B"),
      Fmt(3, "B"), Fmt(1, "B"), Fmt(3, "B"), Fmt(1, "B")>>

SRMVertexFmts ==
    <<Fmt(3, "f"), Fmt(3, "B"), Fmt(1, "B"), Fmt(3, "B"), Fmt(1, "B"),
      Fmt(3, "B"), Fmt(1, "B"), Fmt(3, "B"), Fmt(1, "B")>>

SRM_Vertex ==
    /\ codec = "SRM" /\ pc = "vertex"
    /\ IF InRangeOf(loc.i, loc.vertexCount)
       THEN LET x == ReadAll(reader, SRMVertexFmts, <<>>) IN
            IF x.raised THEN Fail(x.reader)
            ELSE LET f == x.value
                     tangent == convert_vertex_normal(f[2][1], f[2][2], f[2][3])
                     normal == convert_vertex_normal(f[4][1], f[4][2], f[4][3])
                 IN
                 /\ reader' = [x.reader EXCEPT
                                  !.offset = x.reader.offset + ReservedLen]
                 /\ loc' = [loc EXCEPT
                       !.vertices = Append(loc.vertices, f[1]),
                       !.tangents = Append(loc.tangents, tangent),
                       !.constant = AssignConstant(loc.constant, f[3][1]),
                       !.normals = Append(loc.normals, normal),
                       !.material_index = Append(loc.material_index, f[5][1]),
                       !.bone_indices = Append(loc.bone_indices, f[6]),
                       !.bone_weights = Append(loc.bone_weights, f[8]),
                       !.uv = Append(loc.uv,
                                     <<UCoord(f[7][1]), VCoord(f[9][1])>>),
                       !.i = loc.i + 1]
                 /\ UNCHANGED <<codec, pc, mark, mesh_data>>
       ELSE /\ pc' = "face"
            /\ loc' = [loc EXCEPT !.faces = <<>>, !.i = 0]
            /\ mark' = [mark EXCEPT !.face0 = reader.offset]
            /\ UNCHANGED <<reader, codec, mesh_data>>

SRM_Face ==
    /\ codec = "SRM" /\ pc = "face"
    /\ IF InFaceRange(loc.i, loc.faceCount)
       THEN LET x == ReaderRead(reader, Fmt(3, "H")) IN
            IF x.raised THEN Fail(x.reader)
            ELSE /\ reader' = x.reader
                 /\ loc' = [loc EXCEPT
                       !.faces = Append(loc.faces, reverse_vector(x.value)),
                       !.i = loc.i + 1]
                 /\ UNCHANGED <<codec, pc, mark, mesh_data>>
       ELSE /\ pc' = "publish"
            /\ mark' = [mark EXCEPT !.face_end = reader.offset]
            /\ UNCHANGED <<reader, codec, loc, mesh_data>>

\* building mesh_data_dict reads the local `constant`, which is bound only
\* in the vertex loop: unbound, the read raises
SRM_Publish ==
    /\ codec = "SRM" /\ pc = "publish"
    /\ IF loc.constant = <<>> THEN Fail(reader)
       ELSE /\ mesh_data' =
                   <<[magic |-> loc.magic,
                      constant |-> loc.constant[1],
                      vertex_count |-> loc.vertexCount,
                      face_count |-> loc.faceCount,
                      vertices |-> loc.vertices,
                      uv_map |-> loc.uv,
                      normals |-> loc.normals,
                      tangents |-> loc.tangents,
                      faces |-> loc.faces,
                      bone_indices |-> loc.bone_indices,
                      bone_weights |-> loc.bone_weights,
                      material_index |-> loc.material_index,
                      textures |-> loc.textures]>>
            /\ pc' = "done"
            /\ UNCHANGED <<reader, codec, loc, mark>>

(***************************************************************************)
(* The files handed to the decoders: well-formed files of the layout each  *)
(* decoder reads, and the same files with their last bytes missing.        *)
(***************************************************************************)
MaxShaders == 1     \* shader records in a file
MaxTextures == 2    \* textures in a file
MaxPad == 5         \* zero padding bytes before a TRM table
MaxVerts == 2       \* vertex records in a file
MaxFaceCount == 10  \* the faceCount field of a file
MaxCut == 7         \* bytes missing from the end of a truncated file

U32(n) == <<n % 256, (n \div 256) % 256, (n \div 65536) % 256,
            (n \div 16777216) % 256>>
U16(n) == <<n % 256, (n \div 256) % 256>>

MagicBytes(c) == IF c = "TRM" THEN <<84, 82, 77, 2>> ELSE <<83, 82, 77, 1>>

\* a float whose first byte in the file is not zero
FloatBytes(k) == <<(k % 255) + 1, 0, 128, 63>>

ShaderBytes(k) ==
    U32(k) \o Concat([m \in 1..4 |-> FloatBytes(m)])
           \o Concat([m \in 1..6 |-> U32(100 * k + m)])

FaceBytes(k) == U16(10 * k) \o U16(20 * k) \o U16(30 * k)

\* the three bytes of the normal of vertex k in a file of seed nb
NormalBytes(nb, k) ==
    <<(nb + k - 1) % 256, (nb + k + 128) % 256, (nb + k + 127) % 256>>

TangentBytes(nb, k) ==
    <<(nb + k + 127) % 256, (nb + k - 1) % 256, (nb + k + 128) % 256>>

TRMVertexBytes(nb, k) ==
    Concat([m \in 1..3 |-> FloatBytes(16 * k + m)])
        \o NormalBytes(nb, k) \o <<k % 4>> \o <<k, k + 1, 0>>
        \o <<(nb + k + 128) % 256>> \o <<255 - k, k, 0>>
        \o <<(nb + k + 127) % 256>>

TRMFile(S, T, p, F, V, q, nb) ==
    MagicBytes("TRM") \o U32(S) \o Concat([k \in 1..S |-> ShaderBytes(k)])
        \o U32(T) \o Concat([k \in 1..T |-> U16(8000 + k)])
        \o Zeros(p) \o U32(F) \o U32(V)
        \o Concat([k \in 1..(F \div 3) |-> FaceBytes(k)])
        \o Zeros(q)
        \o Concat([k \in 1..V |-> TRMVertexBytes(nb, k)])

DropLast(s, n) == SubSeq(s, 1, Max(Len(s) - n, 0))

TRMFiles ==
    {DropLast(TRMFile(S, T, p, F, V, q, 127), cut) :
        S \in {0, MaxShaders}, T \in {0, MaxTextures}, p \in {0, 1, MaxPad},
        F \in {0, 1, 3, MaxFaceCount}, V \in {0, 1, MaxVerts},
        q \in {0, MaxPad - 3}, cut \in {0, 1, MaxCut}}
    \cup {TRMFile(0, 0, 0, 3, 1, 0, nb) : nb \in Byte}

\* a 31 byte name field: the name, padded with NUL bytes
NameBytes(k) ==
    LET name == IF k % 2 = 1 THEN <<116, 101, 120, 48 + k>>
                ELSE <<32, 98, 1, 99, 195, 169, 32, 32>>
    IN  name \o Zeros(NameLen - Len(name))

SRMVertexBytes(nb, k) ==
    Concat([m \in 1..3 |-> FloatBytes(16 * k + m)])
        \o TangentBytes(nb, k) \o <<k + 1>> \o NormalBytes(nb, k)
        \o <<k % 4>> \o <<k, k + 1, 0>>
        \o <<(nb + k + 128) % 256>> \o <<255 - k, k, 0>>
        \o <<(nb + k + 127) % 256>>
        \o Zeros(ReservedLen)

SRMFile(S, T, V, F, nb) ==
    MagicBytes("SRM") \o U32(S) \o Concat([k \in 1..S |-> ShaderBytes(k)])
        \o U32(T) \o Concat([k \in 1..T |-> NameBytes(k) \o <<k>>])
        \o Zeros(ReservedLen)
        \o [j \in 1..(4 * UnkFloatCount) |->
                FloatBytes(((j - 1) \div 4) + 1)[((j - 1) % 4) + 1]]
        \o [k \in 1..UnkByteCount |-> (k * 7) % 256]
        \o U32(V) \o U32(F)
        \o Concat([k \in 1..V |-> SRMVertexBytes(nb, k)])
        \o Concat([k \in 1..(F \div 3) |-> FaceBytes(k)])
        \o Concat([k \in 1..(F % 3) |-> U16(7)])

\* a file whose u32 at offset 32 is a: with one shader record that is the
\* record's opaqueLength
SRMFileA(a) ==
    LET f == SRMFile(1, 0, 1, 3, 127)
    IN  [j \in 1..Len(f) |-> IF j \in 33..36 THEN U32(a)[j - 32] ELSE f[j]]

SRMFiles ==
    {DropLast(SRMFile(S, T, V, F, 127), cut) :
        S \in {0, MaxShaders}, T \in {0, MaxTextures},
        V \in {0, 1, MaxVerts}, F \in {0, 1, 3, MaxFaceCount},
        cut \in {0, 1, MaxCut}}
    \cup {SRMFile(0, 0, 1, 3, nb) : nb \in {0, 1, 126, 127, 128, 129, 255}}
    \cup {SRMFileA(88500)}

FilesOf(c) == IF c = "TRM" THEN TRMFiles ELSE SRMFiles

InitDecode ==
    /\ \E c \in {"SRM", "TRM"} : \E file \in FilesOf(c) :
           /\ codec = c
           /\ reader = NewReader(file, TRUE)
           /\ rnew = [buf |-> file, LE |-> TRUE]
    /\ pc = "magic"
    /\ loc = NoLocals
    /\ mark = NoMarks
    /\ mesh_data = <<>>
    /\ IdleImport
    /\ mesh_in = <<>>
    /\ rcall = NoCall
    /\ writer = IdleWriter
    /\ wcall = NoWCall
    /\ wnew = None
    /\ whigh = 0
    /\ wcount = 0

NextDecode ==
    \/ TRM_Magic /\ UNCHANGED <<rcall, rnew, wvars, bvars, evars>>
    \/ TRM_ShaderCount /\ UNCHANGED <<rcall, rnew, wvars, bvars, evars>>
    \/ TRM_Shader /\ UNCHANGED <<rcall, rnew, wvars, bvars, evars>>
    \/ TRM_TextureCount /\ UNCHANGED <<rcall, rnew, wvars, bvars, evars>>
    \/ TRM_Texture /\ UNCHANGED <<rcall, rnew, wvars, bvars, evars>>
    \/ TRM_ZeroScan1 /\ UNCHANGED <<rcall, rnew, wvars, bvars, evars>>
    \/ TRM_FaceCount /\ UNCHANGED <<rcall, rnew, wvars, bvars, evars>>
    \/ TRM_VertexCount /\ UNCHANGED <<rcall, rnew, wvars, bvars, evars>>
    \/ TRM_Face /\ UNCHANGED <<rcall, rnew, wvars, bvars, evars>>
    \/ TRM_ZeroScan2 /\ UNCHANGED <<rcall, rnew, wvars, bvars, evars>>
    \/ TRM_Vertex /\ UNCHANGED <<rcall, rnew, wvars, bvars, evars>>
    \/ TRM_Publish /\ UNCHANGED <<rcall, rnew, wvars, bvars, evars>>
    \/ SRM_Magic /\ UNCHANGED <<rcall, rnew, wvars, bvars, evars>>
    \/ SRM_ShaderCount /\ UNCHANGED <<rcall, rnew, wvars, bvars, evars>>
    \/ SRM_Shader /\ UNCHANGED <<rcall, rnew, wvars, bvars, evars>>
    \/ SRM_TextureCount /\ UNCHANGED <<rcall, rnew, wvars, bvars, evars>>
    \/ SRM_Texture /\ UNCHANGED <<rcall, rnew, wvars, bvars, evars>>
    \/ SRM_UnkFloats /\ UNCHANGED <<rcall, rnew, wvars, bvars, evars>>
    \/ SRM_UnkBytes /\ UNCHANGED <<rcall, rnew, wvars, bvars, evars>>
    \/ SRM_VertexCount /\ UNCHANGED <<rcall, rnew, wvars, bvars, evars>>
    \/ SRM_FaceCount /\ UNCHANGED <<rcall, rnew, wvars, bvars, evars>>
    \/ SRM_Vertex /\ UNCHANGED <<rcall, rnew, wvars, bvars, evars>>
    \/ SRM_Face /\ UNCHANGED <<rcall, rnew, wvars, bvars, evars>>
    \/ SRM_Publish /\ UNCHANGED <<rcall, rnew, wvars, bvars, evars>>

SpecDecode == InitDecode /\ [][NextDecode]_vars

(***************************************************************************)
(* Claims about the Writer.                                                *)
(***************************************************************************)
\* C4: a Writer write of an integer v as T made while the cursor is at
\* offset O, followed by a Reader read of T at offset O of the resulting
\* bytes (same endianness), returns v, after any writes and seeks.
C4_WriteThenReadReturnsValue ==
    (wcall.op = "write" /\ ~wcall.raised) =>
        LET r == [NewReader(writer.file.bytes, writer.is_LE)
                      EXCEPT !.offset = wcall.at]
            x == ReaderScalar(r, wcall.fmt.c)
        IN  ~x.raised /\ x.value = wcall.args[1]

\* C5: for a Writer over a pre-existing in-memory buffer, after seek(p)
\* with p + sizeof(T) <= len(buffer), a write of T replaces exactly the
\* bytes p .. p+sizeof(T)-1, leaves the others and the size unchanged.
C5_InPlaceOverwrite ==
    (/\ wnew.kind = "bytearray"
     /\ wcall.op = "write" /\ ~wcall.raised /\ wcall.after_seek
     /\ wcall.at >= 0
     /\ wcall.at + Len(wcall.packed) <= Len(wcall.before)) =>
        /\ Len(writer.file.bytes) = Len(wcall.before)
        /\ \A i \in 1..Len(wcall.before) :
               writer.file.bytes[i] =
                   IF i > wcall.at /\ i <= wcall.at + Len(wcall.packed)
                   THEN wcall.packed[i - wcall.at]
                   ELSE wcall.before[i]

\* C6: after any writes and seeks, length is the sink's current size for a
\* growable byte sink and the highest offset written so far for a fixed
\* buffer or a file handle.  (A pre-existing bytearray is both growable
\* and a buffer addressed by offset: either reading is accepted for it.)
C6_LengthTracksSink ==
    /\ wnew = None => writer.length = Len(writer.file.bytes)
    /\ wnew.kind = "bytearray" =>
           writer.length \in {Len(writer.file.bytes), whigh}
    /\ wnew.kind = "stream" => writer.length = whigh


(***************************************************************************)
(* Claims about the decoders, stated on the bytes of the file.             *)
(***************************************************************************)
\* the length of the run of zero bytes that starts at position p
ZeroRun(data, p) ==
    LET stops == {j \in p..Len(data) : j = Len(data) \/ data[j + 1] # 0}
    IN  (CHOOSE j \in stops : \A m \in stops : j <= m) - p

\* a finished scan that started at p, ended at e and counted `count`
ScanOutcome(p, e, count) ==
    LET k == ZeroRun(reader.data, p) IN
    p + k < reader.length =>
        /\ e = p + k
        /\ count = k
        /\ reader.data[e + 1] # 0

\* C7: a TRM zero scan started at p on k zero bytes followed by a non-zero
\* byte consumes exactly the k bytes, counts k, and leaves the cursor at
\* p + k, so that the next read returns the non-zero byte.
C7_ZeroScanConsumesRun ==
    codec = "TRM" =>
        /\ mark.end1 >= 0 => ScanOutcome(mark.scan1, mark.end1, loc.zero_count)
        /\ mark.end2 >= 0 =>
               ScanOutcome(mark.scan2, mark.end2, loc.zero_count_2)
        /\ (pc = "faceCount" /\ reader.offset < reader.length) =>
               /\ reader.offset = mark.end1
               /\ ReaderScalar(reader, "B").value
                      = reader.data[mark.scan1 + loc.zero_count + 1]
               /\ ReaderScalar(reader, "B").value # 0
        /\ (pc = "vertex" /\ loc.i = 0 /\ reader.offset < reader.length) =>
               /\ reader.offset = mark.end2
               /\ ReaderScalar(reader, "B").value
                      = reader.data[mark.scan2 + loc.zero_count_2 + 1]
               /\ ReaderScalar(reader, "B").value # 0

\* the first scan has ended after exactly 5 zero bytes, on a non-zero byte
C7_Witness ==
    /\ codec = "TRM" /\ pc = "faceCount"
    /\ loc.zero_count = 5
    /\ reader.offset = mark.scan1 + 5
    /\ \A j \in 1..5 : reader.data[mark.scan1 + j] = 0
    /\ reader.data[reader.offset + 1] # 0

\* the little-endian u16 at position a of the file
U16At(a) == reader.data[a + 1] + 256 * reader.data[a + 2]

\* the i-th face triple of the stream, in stream order
StreamTriple(i) ==
    <<U16At(mark.face0 + 6 * (i - 1)), U16At(mark.face0 + 6 * (i - 1) + 2),
      U16At(mark.face0 + 6 * (i - 1) + 4)>>

Backwards(t, u) == t[1] = u[3] /\ t[2] = u[2] /\ t[3] = u[1]

\* C8: in both decoders the i-th stored face is the i-th triple (a, b, c) of
\* the stream stored as (c, b, a), and the published faces are those.
C8_FaceWinding ==
    codec \in {"SRM", "TRM"} =>
        /\ \A i \in 1..Len(loc.faces) :
              /\ Len(loc.faces[i]) = 3
              /\ Backwards(loc.faces[i], StreamTriple(i))
        /\ pc = "done" => mesh_data[1].faces = loc.faces

\* an SRM file whose stream triple (10, 20, 30) is published as (30, 20, 10)
C8_Witness ==
    /\ codec = "SRM" /\ pc = "done"
    /\ \E i \in 1..Len(mesh_data[1].faces) :
          /\ StreamTriple(i) = <<10, 20, 30>>
          /\ mesh_data[1].faces[i] = <<30, 20, 10>>

\* C9: once the face loop has ended, floor(F / 3) triples are stored and the
\* loop has moved the cursor by 6 * floor(F / 3) bytes; the SRM decoder, which
\* reads nothing after the faces, ends there.
C9_FaceCountFloored ==
    (codec \in {"SRM", "TRM"} /\ mark.face_end >= 0 /\ Fits(loc.faceCount)) =>
        /\ Len(loc.faces) = ToInt(loc.faceCount) \div 3
        /\ mark.face_end = mark.face0 + 6 * (ToInt(loc.faceCount) \div 3)
        /\ (codec = "SRM" /\ pc \in {"publish", "done"}) =>
               reader.offset = mark.face_end
        /\ pc = "done" => Len(mesh_data[1].faces) = ToInt(loc.faceCount) \div 3

\* a TRM file of faceCount 10 is decoded with exactly 3 triples
C9_Witness ==
    /\ codec = "TRM" /\ pc = "done"
    /\ ToInt(loc.faceCount) = 10
    /\ Len(mesh_data[1].faces) = 3
    /\ mark.face_end = mark.face0 + 18

\* the three bytes at position a of the file, each minus 127
Minus127At(a) ==
    <<reader.data[a + 1] - 127, reader.data[a + 2] - 127,
      reader.data[a + 3] - 127>>

InComponentRange(t) == \A j \in 1..3 : t[j] >= 0 - 127 /\ t[j] <= 128

InUnit(q) == q[2] > 0 /\ 0 <= q[1] /\ q[1] <= q[2]

\* the pair (u/255, 1 - v/255) of the bytes at positions a and b of the file
UVAt(a, b) == <<<<reader.data[a + 1], 255>>, <<255 - reader.data[b + 1], 255>>>>

\* C11: the i-th stored UV pair is (u/255, 1 - v/255), u the byte of the
\* vertex record read before the bone weights and v the byte read after
\* them; both components lie in [0, 1], and the published uv_map is that list.
C11_UVDecode ==
    /\ codec = "TRM" =>
          \A i \in 1..Len(loc.uv) :
              /\ loc.uv[i] = UVAt(mark.vert0 + 24 * (i - 1) + 19,
                                  mark.vert0 + 24 * (i - 1) + 23)
              /\ loc.bone_weights[i]
                     = SubSeq(reader.data, mark.vert0 + 24 * (i - 1) + 21,
                              mark.vert0 + 24 * (i - 1) + 23)
              /\ InUnit(loc.uv[i][1]) /\ InUnit(loc.uv[i][2])
    /\ codec = "SRM" =>
          \A i \in 1..Len(loc.uv) :
              /\ loc.uv[i] = UVAt(mark.vert0 + 32 * (i - 1) + 23,
                                  mark.vert0 + 32 * (i - 1) + 27)
              /\ loc.bone_weights[i]
                     = SubSeq(reader.data, mark.vert0 + 32 * (i - 1) + 25,
                              mark.vert0 + 32 * (i - 1) + 27)
              /\ InUnit(loc.uv[i][1]) /\ InUnit(loc.uv[i][2])
    /\ (codec \in {"SRM", "TRM"} /\ pc = "done") =>
          mesh_data[1].uv_map = loc.uv

\* a published SRM vertex whose U byte is 0 (U = 0) and V byte is 255 (V = 0)
C11_Witness ==
    /\ codec = "SRM" /\ pc = "done"
    /\ Len(mesh_data[1].uv_map) >= 1
    /\ reader.data[mark.vert0 + 24] = 0
    /\ reader.data[mark.vert0 + 28] = 255
    /\ mesh_data[1].uv_map[1] = <<<<0, 255>>, <<0, 255>>>>

(***************************************************************************)
(* build_mesh_from_data (model_importer.py) and the helpers it calls       *)
(* (bpy_util_funcs.py), on a Blender mesh object reduced to its polygons,  *)
(* UV layer, vertex groups and material slots.                             *)
(***************************************************************************)
MaxImpVerts == 3        \* vertices of a mesh handed to the importer
MaxImpFaces == 3        \* faces of such a mesh
MaxImpTextures == 2     \* textures of such a mesh
MaxMat == 3             \* largest material index byte of such a mesh

\* the test `if weight == 0: continue` of add_model_weights
SkipSlot_never(weight) == FALSE

SkipSlot(weight) == weight = 0

\* vertex_groups[group_name].add([vertex_index], weight / 255.0, 'REPLACE')
\* on the group of bone `bone`, created first if it is not there; a group is
\* [bone, weights], weights[v + 1] the weight of vertex v or <<>>
GroupAdd(groups, n, bone, vertex_index, weight) ==
    LET have == \E g \in 1..Len(groups) : groups[g].bone = bone
        gs == IF have THEN groups
              ELSE Append(groups, [bone |-> bone,
                                   weights |-> [v \in 1..n |-> <<>>]])
    IN  [g \in 1..Len(gs) |->
            IF gs[g].bone = bone
            THEN [gs[g] EXCEPT !.weights[vertex_index + 1] = <<weight, 255>>]
            ELSE gs[g]]

\* add_model_weights: the slots of all vertices, in order; slots is the
\* sequence of <<vertex_index, bone_index, weight>>
RECURSIVE AddSlots(_, _, _)
AddSlots(groups, n, slots) ==
    IF slots = <<>> THEN groups
    ELSE LET s == slots[1] IN
         IF SkipSlot(s[3]) THEN AddSlots(groups, n, Tail(slots))
         ELSE AddSlots(GroupAdd(groups, n, s[2], s[1], s[3]), n, Tail(slots))

\* enumerate(zip(bone_indices, bone_weights)) and the inner zip, flattened
ZipSlots(bone_indices, bone_weights) ==
    LET n == Min(Len(bone_indices), Len(bone_weights))
        m(v) == Min(Len(bone_indices[v]), Len(bone_weights[v]))
    IN  Concat([v \in 1..n |->
            [j \in 1..m(v) |->
                <<v - 1, bone_indices[v][j], bone_weights[v][j]>>]])

add_model_weights(groups, n, bone_indices, bone_weights) ==
    AddSlots(groups, n, ZipSlots(bone_indices, bone_weights))

\* create_material: the material of that name in bpy.data.materials, made
\* if there is none; the materials are stood for by their names
create_material(data_materials, material_name) ==
    IF \E k \in 1..Len(data_materials) : data_materials[k] = material_name
    THEN data_materials
    ELSE Append(data_materials, material_name)

\* add_material: the slots of the object after the call
add_material(slots, mat) ==
    IF \E k \in 1..Len(slots) : slots[k] = mat THEN slots
    ELSE Append(slots, mat)

\* mat_index of a polygon whose first vertex has material index byte m
ClampMaterial_noclamp(m, materials) == m - 1

ClampMaterial(m, materials) ==
    LET mat_index == m - 1 IN
    IF mat_index < 0 \/ mat_index >= Len(materials) THEN 0 ELSE mat_index

\* mesh.from_pydata and the UV layer
BuildGeometry ==
    /\ bpc = "geometry"
    /\ scene' = [scene EXCEPT
           !.polygons = [k \in 1..Len(model_data.faces) |->
                            [vertices |-> model_data.faces[k],
                             material_index |-> 0]],
           !.uv_layer = [k \in 1..Len(model_data.faces) |->
                            [c \in 1..Len(model_data.faces[k]) |->
                                model_data.uv_map[model_data.faces[k][c] + 1]]]]
    /\ bpc' = "weights"
    /\ UNCHANGED <<model_data, bloc>>

AddModelWeights ==
    /\ bpc = "weights"
    /\ scene' = [scene EXCEPT !.vertex_groups =
           add_model_weights(scene.vertex_groups, Len(model_data.vertices),
                             model_data.bone_indices, model_data.bone_weights)]
    /\ bpc' = "materials"
    /\ bloc' = [bloc EXCEPT !.i = 0, !.materials = <<>>]
    /\ UNCHANGED model_data

\* one pass of `for texture_name in model_data["textures"]`
AddTextureMaterial ==
    /\ bpc = "materials"
    /\ IF bloc.i < Len(model_data.textures)
       THEN LET sanitized_name == Printable(model_data.textures[bloc.i + 1])
            IN
            /\ scene' = [scene EXCEPT
                   !.data_materials = create_material(@, sanitized_name),
                   !.materials = add_material(@, sanitized_name)]
            /\ bloc' = [bloc EXCEPT
                   !.materials = Append(@, sanitized_name),
                   !.i = bloc.i + 1]
            /\ UNCHANGED <<model_data, bpc>>
       ELSE /\ bpc' = "polygons"
            /\ bloc' = [bloc EXCEPT !.i = 0]
            /\ UNCHANGED <<model_data, scene>>

\* one pass of `for poly in mesh.polygons`; after the loop the mesh is updated
\* and the function ends
AssignPolyMaterial ==
    /\ bpc = "polygons"
    /\ IF bloc.i < Len(scene.polygons)
       THEN LET first_vertex == scene.polygons[bloc.i + 1].vertices[1]
                m == model_data.material_index[first_vertex + 1]
            IN
            /\ scene' = [scene EXCEPT
                   !.polygons[bloc.i + 1].material_index =
                       ClampMaterial(m, bloc.materials)]
            /\ bloc' = [bloc EXCEPT !.i = bloc.i + 1]
            /\ UNCHANGED <<model_data, bpc>>
       ELSE /\ bpc' = "done"
            /\ UNCHANGED <<model_data, scene, bloc>>

\* the meshes handed to build_mesh_from_data
ImpNames == {<<97>>, <<98, 7>>}

RECURSIVE SeqsUpTo(_, _)
SeqsUpTo(S, n) ==
    IF n = 0 THEN {<<>>}
    ELSE LET shorter == SeqsUpTo(S, n - 1) IN
         shorter \cup {Append(s, x) : s \in shorter, x \in S}

ImpFace(k, n) == <<(k + 1) % n, k % n, (k + 2) % n>>

\* the bone slots of vertex v in the c-th case
ImpBones(c, v) ==
    CASE c = 1 -> [indices |-> <<v % 2, 1, 0>>, weights |-> <<255, 0, 0>>]
      [] c = 2 -> [indices |-> <<0, 0, 0>>, weights |-> <<0, 0, 0>>]
      [] c = 3 -> [indices |-> <<4, 1, 2>>, weights |-> <<0, 128, v>>]
      [] c = 4 -> [indices |-> <<v, v + 1, 3>>, weights |-> <<200, 55, 0>>]

ImpModelData(n, F, textures, base, step, c) ==
    [vertices |-> [v \in 1..n |-> <<v, 0, 0>>],
     faces |-> [k \in 1..F |-> ImpFace(k, n)],
     normals |-> [v \in 1..n |-> <<0, 0, 1>>],
     uv_map |-> [v \in 1..n |-> <<UCoord(v), VCoord(v)>>],
     bone_indices |-> [v \in 1..n |-> ImpBones(c, v - 1).indices],
     bone_weights |-> [v \in 1..n |-> ImpBones(c, v - 1).weights],
     textures |-> textures,
     material_index |-> [v \in 1..n |-> (base + step * v) % (MaxMat + 1)]]

InitImport ==
    /\ \E F \in 0..MaxImpFaces, textures \in SeqsUpTo(ImpNames, MaxImpTextures),
          base \in 0..MaxMat, step \in {0, 1}, c \in 1..4 :
            model_data = ImpModelData(MaxImpVerts, F, textures, base, step, c)
    /\ scene = NoScene
    /\ bpc = "geometry"
    /\ bloc = NoBuildLocals
    /\ reader = IdleReader
    /\ rnew = [buf |-> <<>>, LE |-> TRUE]
    /\ rcall = NoCall
    /\ writer = IdleWriter
    /\ wcall = NoWCall
    /\ wnew = None
    /\ whigh = 0
    /\ wcount = 0
    /\ IdleDecoder
    /\ mesh_in = <<>>

NextImport ==
    \/ BuildGeometry /\ UNCHANGED <<rvars, wvars, dvars, evars>>
    \/ AddModelWeights /\ UNCHANGED <<rvars, wvars, dvars, evars>>
    \/ AddTextureMaterial /\ UNCHANGED <<rvars, wvars, dvars, evars>>
    \/ AssignPolyMaterial /\ UNCHANGED <<rvars, wvars, dvars, evars>>

SpecImport == InitImport /\ [][NextImport]_vars

\* the polygons whose material has been assigned
AssignedPolys ==
    IF bpc = "polygons" THEN 1..bloc.i
    ELSE IF bpc = "done" THEN 1..Len(scene.polygons)
    ELSE {}

\* the slot the claim gives to material index byte m among T textures
ClaimedSlot(m, T) == IF 1 <= m /\ m <= T THEN m - 1 ELSE 0

\* the material index byte of the first vertex of polygon k
FirstVertexByte(k) == model_data.material_index[model_data.faces[k][1] + 1]

\* C12: every polygon is given slot m - 1 when the material index byte m of
\* its first vertex has 1 <= m <= number of textures, and slot 0 when m = 0
\* or m > number of textures; the assignment loop then runs to its end.
C12_MaterialClamp ==
    /\ \A k \in AssignedPolys :
          scene.polygons[k].material_index
              = ClaimedSlot(FirstVertexByte(k), Len(model_data.textures))
    /\ bpc \in {"geometry", "weights", "materials", "polygons", "done"}
    /\ bpc = "done" => Len(scene.polygons) = Len(model_data.faces)

\* a finished build with 2 textures in which byte 2 got slot 1, byte 3
\* (above the texture count) got slot 0 and byte 0 got slot 0
C12_Witness ==
    /\ bpc = "done"
    /\ Len(model_data.textures) = 2
    /\ \E k \in 1..Len(scene.polygons) :
          FirstVertexByte(k) = 2 /\ scene.polygons[k].material_index = 1
    /\ \E k \in 1..Len(scene.polygons) :
          FirstVertexByte(k) = 3 /\ scene.polygons[k].material_index = 0
    /\ \E k \in 1..Len(scene.polygons) :
          FirstVertexByte(k) = 0 /\ scene.polygons[k].material_index = 0

\* the slots of vertex v (from 0) that name bone j with a weight other than 0
LiveSlots(v, j) ==
    {s \in 1..3 : /\ model_data.bone_indices[v + 1][s] = j
                  /\ model_data.bone_weights[v + 1][s] # 0}

\* the bones the mesh names in any slot
NamedBones ==
    {model_data.bone_indices[v][s] : v \in 1..Len(model_data.bone_indices),
                                     s \in 1..3}

GroupsOf(j) == {g \in 1..Len(scene.vertex_groups) : scene.vertex_groups[g].bone = j}

\* C13: once the vertex groups are built, vertex i is in group bone_j if and
\* only if one of its three slots has index j and a weight other than 0 (its
\* weight in the group is that of such a slot, over 255), and no group exists
\* for a bone that only zero-weight slots name.
C13_ZeroWeightExcluded ==
    bpc \in {"materials", "polygons", "done"} =>
        /\ \A g \in 1..Len(scene.vertex_groups) :
              /\ scene.vertex_groups[g].bone \in NamedBones
              /\ GroupsOf(scene.vertex_groups[g].bone) = {g}
        /\ \A j \in NamedBones :
              /\ (GroupsOf(j) # {}) <=>
                     (\E v \in 0..(Len(model_data.vertices) - 1) :
                          LiveSlots(v, j) # {})
              /\ \A g \in GroupsOf(j) :
                     \A v \in 0..(Len(model_data.vertices) - 1) :
                         LET w == scene.vertex_groups[g].weights[v + 1] IN
                         /\ (w # <<>>) <=> (LiveSlots(v, j) # {})
                         /\ w # <<>> =>
                                \E s \in LiveSlots(v, j) :
                                    w = <<model_data.bone_weights[v + 1][s], 255>>

\* groups bone_1 and bone_2 only, though bone 4 is named (with weight 0) by
\* every vertex; vertex 0 names bone 2 with weight 0 and is not in bone_2,
\* vertex 1 names it with weight 1 and is
C13_Witness ==
    /\ bpc = "done"
    /\ 4 \in NamedBones /\ GroupsOf(4) = {}
    /\ Len(scene.vertex_groups) = 2
    /\ model_data.bone_indices[1][3] = 2 /\ model_data.bone_weights[1][3] = 0
    /\ \E g \in GroupsOf(2) :
          /\ scene.vertex_groups[g].weights[1] = <<>>
          /\ scene.vertex_groups[g].weights[2] = <<1, 255>>

\* the byte size of one record of the table the decoder is reading
TableRecord ==
    CASE pc = "shader" -> 44
      [] pc = "texture" -> IF codec = "SRM" THEN 32 ELSE 2
      [] pc = "vertex" -> IF codec = "SRM" THEN 32 ELSE 24
      [] pc = "face" -> 6
      [] OTHER -> 1

\* the number of records its count field announces
TableCount ==
    CASE pc = "shader" -> loc.shaderCount
      [] pc = "texture" -> loc.textureCount
      [] pc = "vertex" -> loc.vertexCount
      [] pc = "face" -> loc.faceCount
      [] OTHER -> Num(FALSE, <<>>)

\* do `count` records of `rec` bytes fit the bytes from `start` on ?
TableFits(count, rec, start) ==
    /\ Fits(count)
    /\ (IF pc = "face" THEN ToInt(count) \div 3 ELSE ToInt(count))
           <= (reader.length - start) \div rec

\* C14: a record of a table is read only if the table as a whole (count
\* times record size) fits the bytes that remained at its start: a count
\* that does not fit makes the decode raise before the first record.
C14_CountFailsFast ==
    (/\ codec \in {"SRM", "TRM"}
     /\ pc \in {"shader", "texture", "vertex", "face"}
     /\ loc.i >= 1) =>
        TableFits(TableCount, TableRecord, reader.offset - loc.i * TableRecord)

\* C15: after a successful SRM decode the published mesh record carries the
\* 384 floats and the 128 bytes of the unknown header blocks, as read.
C15_OpaqueBlocksKept ==
    (codec = "SRM" /\ pc = "done") =>
        /\ Len(loc.header_unk_floats) = UnkFloatCount
        /\ Len(loc.header_unk_bytes) = UnkByteCount
        /\ {"header_unk_floats", "header_unk_bytes"} \subseteq DOMAIN mesh_data[1]
        /\ mesh_data[1].header_unk_floats = loc.header_unk_floats
        /\ mesh_data[1].header_unk_bytes = loc.header_unk_bytes

(***************************************************************************)
(* The SRM-V1 encoder.  The exporter module is imported by __init__.py but *)
(* is not among the sources; the encoder is taken from the specification:  *)
(* it replays the decode grammar in write order.                           *)
(***************************************************************************)
RtShaders == 1          \* shader records of a mesh handed to the encoder
RtTextures == 2         \* its textures
RtVerts == 4            \* its vertices
RtFaces == 2            \* its faces
RtSeeds == 6            \* the number of such meshes

EncodeF32(v) == Reverse(FloatBits("f", v))

EncodeShader(s) ==
    PackItem("I", s.type, TRUE)
        \o Concat([m \in 1..4 |-> EncodeF32(s.params[m])])
        \o Concat([m \in 1..6 |-> PackItem("I", s.pairs[m], TRUE)])

\* a name in a 31 byte field, NUL padded, and its flag byte
EncodeTexture(name) == name \o Zeros(NameLen - Len(name)) \o <<0>>

EncodeVertex(mesh, v) ==
    Concat([m \in 1..3 |-> EncodeF32(mesh.vertices[v][m])])
        \o [m \in 1..3 |-> mesh.tangents[v][m] + 127]
        \o <<mesh.constant>>
        \o [m \in 1..3 |-> mesh.normals[v][m] + 127]
        \o <<mesh.material_index[v]>>
        \o mesh.bone_indices[v]
        \o <<mesh.uv_map[v][1][1]>>
        \o mesh.bone_weights[v]
        \o <<255 - mesh.uv_map[v][2][1]>>
        \o Zeros(ReservedLen)

EncodeFace(f) == U16(f[3]) \o U16(f[2]) \o U16(f[1])

\* encode(mesh, V1)
EncodeSRM(mesh) ==
    mesh.magic
        \o U32(Len(mesh.shaders))
        \o Concat([k \in 1..Len(mesh.shaders) |-> EncodeShader(mesh.shaders[k])])
        \o U32(Len(mesh.textures))
        \o Concat([k \in 1..Len(mesh.textures) |->
                      EncodeTexture(mesh.textures[k])])
        \o Zeros(ReservedLen)
        \o [j \in 1..(4 * UnkFloatCount) |->
               EncodeF32(mesh.header_unk_floats[((j - 1) \div 4) + 1])[
                   ((j - 1) % 4) + 1]]
        \o mesh.header_unk_bytes
        \o PackItem("I", mesh.vertex_count, TRUE)
        \o PackItem("I", mesh.face_count, TRUE)
        \o Concat([v \in 1..Len(mesh.vertices) |-> EncodeVertex(mesh, v)])
        \o Concat([k \in 1..Len(mesh.faces) |-> EncodeFace(mesh.faces[k])])

\* a float of the model: sign, biased exponent, fraction
RtFloat(k) ==
    [sign |-> k % 2, exp |-> 120 + (k % 16), frac |-> (4096 * k + 1) % 8388608]

\* the meshes handed to the encoder
RtMesh(seed) ==
    [magic |-> <<83, 82, 77, 48 + seed>>,
     shaders |-> [k \in 1..RtShaders |->
                     [type |-> Num(FALSE, <<seed + k>>),
                      params |-> [m \in 1..4 |-> RtFloat(seed + m)],
                      pairs |-> [m \in 1..6 |-> Num(FALSE, <<seed, m>>)]]],
     textures |-> [k \in 1..RtTextures |-> <<116, 101, 120, 48 + seed + k>>],
     header_unk_floats |-> [k \in 1..UnkFloatCount |-> RtFloat(seed * k)],
     header_unk_bytes |-> [k \in 1..UnkByteCount |-> (seed * k) % 256],
     constant |-> 2,
     vertex_count |-> Num(FALSE, <<RtVerts>>),
     face_count |-> Num(FALSE, <<3 * RtFaces>>),
     vertices |-> [v \in 1..RtVerts |-> [m \in 1..3 |-> RtFloat(seed + v + m)]],
     tangents |-> [v \in 1..RtVerts |-> <<seed - 127, v, 128>>],
     normals |-> [v \in 1..RtVerts |-> <<0 - 127, seed + v, 128 - v>>],
     material_index |-> [v \in 1..RtVerts |-> (seed + v) % (RtTextures + 1)],
     bone_indices |-> [v \in 1..RtVerts |-> <<v, seed, 0>>],
     bone_weights |-> [v \in 1..RtVerts |-> <<255 - seed, seed, 0>>],
     uv_map |-> [v \in 1..RtVerts |->
                    <<UCoord((40 * seed + v) % 256), VCoord((60 * v) % 256)>>],
     faces |-> [k \in 1..RtFaces |->
                   <<(k + 2) % RtVerts, (k + 1) % RtVerts, k % RtVerts>>]]

InitRoundTrip ==
    /\ \E seed \in 1..RtSeeds :
          /\ mesh_in = <<RtMesh(seed)>>
          /\ reader = NewReader(EncodeSRM(RtMesh(seed)), TRUE)
          /\ rnew = [buf |-> EncodeSRM(RtMesh(seed)), LE |-> TRUE]
    /\ codec = "SRM"
    /\ pc = "magic"
    /\ loc = NoLocals
    /\ mark = NoMarks
    /\ mesh_data = <<>>
    /\ IdleImport
    /\ rcall = NoCall
    /\ writer = IdleWriter
    /\ wcall = NoWCall
    /\ wnew = None
    /\ whigh = 0
    /\ wcount = 0

\* decode of the encoder's output
NextRoundTrip ==
    \/ SRM_Magic /\ UNCHANGED <<rcall, rnew, wvars, bvars, evars>>
    \/ SRM_ShaderCount /\ UNCHANGED <<rcall, rnew, wvars, bvars, evars>>
    \/ SRM_Shader /\ UNCHANGED <<rcall, rnew, wvars, bvars, evars>>
    \/ SRM_TextureCount /\ UNCHANGED <<rcall, rnew, wvars, bvars, evars>>
    \/ SRM_Texture /\ UNCHANGED <<rcall, rnew, wvars, bvars, evars>>
    \/ SRM_UnkFloats /\ UNCHANGED <<rcall, rnew, wvars, bvars, evars>>
    \/ SRM_UnkBytes /\ UNCHANGED <<rcall, rnew, wvars, bvars, evars>>
    \/ SRM_VertexCount /\ UNCHANGED <<rcall, rnew, wvars, bvars, evars>>
    \/ SRM_FaceCount /\ UNCHANGED <<rcall, rnew, wvars, bvars, evars>>
    \/ SRM_Vertex /\ UNCHANGED <<rcall, rnew, wvars, bvars, evars>>
    \/ SRM_Face /\ UNCHANGED <<rcall, rnew, wvars, bvars, evars>>
    \/ SRM_Publish /\ UNCHANGED <<rcall, rnew, wvars, bvars, evars>>

SpecRoundTrip == InitRoundTrip /\ [][NextRoundTrip]_vars

\* C16: decode(encode(mesh, V1)) has every field of mesh, with the value it
\* has in mesh; the opaque unknown blocks are among them.
C16_RoundTrip ==
    (mesh_in # <<>> /\ pc = "done") =>
        /\ Len(mesh_data) = 1
        /\ DOMAIN mesh_in[1] \subseteq DOMAIN mesh_data[1]
        /\ \A f \in DOMAIN mesh_in[1] : mesh_data[1][f] = mesh_in[1][f]

\* the u32 at offset 32 of the file: faceCountA of an SRM-V2/V3 header
HeaderFaceCountA == SubSeq(rnew.buf, 33, 36)

\* C17: when the decoder stands at the vertexCount field it has read 684
\* floats and 132 bytes of unknown block if the header's faceCountA is 88500
\* and 384 floats and 128 bytes otherwise (the two differ by 1204 bytes).
C17_UnknownBlockBranch ==
    (codec = "SRM" /\ pc = "vertexCount") =>
        /\ mark.unk0 >= 0
        /\ reader.offset - mark.unk0 =
              IF HeaderFaceCountA = U32(88500) THEN 4 * 684 + 132
              ELSE 4 * 384 + 128

\* str.rstrip(): whitespace removed at the end
RStrip(t) == Reverse(LStrip(Reverse(t)))

\* the k-th 31 byte name field of the file, decoded
NameField(k) ==
    LET at == 12 + 44 * ToInt(loc.shaderCount) + (NameLen + 1) * (k - 1)
    IN  Utf8Decode(SubSeq(rnew.buf, at + 1, at + NameLen), <<>>).value

NamesPrintable ==
    \A k \in 1..Len(loc.textures) :
        /\ Len(loc.textures[k]) <= NameLen
        /\ \A j \in 1..Len(loc.textures[k]) : IsPrintable(loc.textures[k][j])

NamesInOrder ==
    /\ Len(loc.textures) = ToInt(loc.textureCount)
    /\ \A k \in 1..Len(loc.textures) :
          loc.textures[k] = Printable(RStrip(NameField(k)))

NamesTrimmed ==
    \A k \in 1..Len(loc.textures) :
        loc.textures[k] = <<>>
            \/ ~IsSpace(loc.textures[k][Len(loc.textures[k])])

\* C18: once the texture table is read, the list has textureCount names in
\* stream order, each the name field with trailing whitespace stripped and
\* the non-printable characters removed: printable characters only, at most
\* 31 of them, the last one not whitespace.
C18_TextureNamesSanitized ==
    (codec = "SRM" /\ pc = "unk_floats") =>
        NamesInOrder /\ NamesPrintable /\ NamesTrimmed

\* what a Reader placed where num_string began reads back: a u32 n, then
\* read_string(n)
ReadBackNumString(text) ==
    LET r == [NewReader(writer.file.bytes, writer.is_LE)
                  EXCEPT !.offset = wcall.at]
        n == ReaderScalar(r, "I")
    IN  /\ ~n.raised
        /\ n.value = Num(FALSE, IntDigits(Len(text)))
        /\ LET s == ReaderReadString(n.reader, Len(text))
           IN  ~s.raised /\ s.value = text

\* C19: num_string(text), text ASCII, writes a u32 holding the number of
\* bytes of text followed by exactly those bytes, advances the write position
\* by 4 + len(text), and a Reader that reads a u32 n and then read_string(n)
\* at the position where the write began recovers text.
C19_NumStringRoundTrip ==
    (wcall.op = "num_string" /\ ~AsciiEncode(wcall.args[1]).raised) =>
        LET text == wcall.args[1] IN
        /\ ~wcall.raised
        /\ wcall.packed =
              PackItem("I", Num(FALSE, IntDigits(Len(text))), writer.is_LE)
                  \o text
        /\ WriterTell(writer) = wcall.at + 4 + Len(text)
        /\ ReadBackNumString(text)

\* C20: a string written into a field of declared width n emits exactly n
\* bytes and advances the position by n, a shorter string padded and a
\* longer one truncated.
C20_FixedStringWidth ==
    (wcall.op = "ascii_string" /\ ~AsciiEncode(wcall.args[1]).raised) =>
        LET text == wcall.args[1]
            n == wcall.fmt.n
        IN
        /\ ~wcall.raised
        /\ Len(wcall.packed) = n
        /\ WriterTell(writer) = wcall.at + n
        /\ \A j \in 1..Min(n, Len(text)) : wcall.packed[j] = text[j]

\* the counts of a decoded SRM file
SrmS == ToInt(loc.shaderCount)
SrmT == ToInt(loc.textureCount)
SrmV == ToInt(loc.vertexCount)
SrmF == ToInt(loc.faceCount)

\* C21: an SRM-V1 decode consumes magic(4), shaderCount(4), S records of 44
\* bytes, textureCount(4), T entries of 32 bytes, 4 reserved bytes, 384
\* floats, 128 bytes, vertexCount(4), faceCount(4), V records of 32 bytes and
\* floor(F/3) triples of 6 bytes, in this order; after a successful decode
\* the cursor is at 1688 + 44*S + 32*T + 32*V + 6*floor(F/3).
C21_SRMSequential ==
    (codec = "SRM" /\ pc = "done") =>
        /\ mark.unk0 = 4 + 4 + 44 * SrmS + 4 + 32 * SrmT + 4
        /\ mark.vert0 = mark.unk0 + 4 * 384 + 128 + 4 + 4
        /\ mark.face0 = mark.vert0 + 32 * SrmV
        /\ mark.face_end = mark.face0 + 6 * (SrmF \div 3)
        /\ reader.offset = mark.face_end
        /\ reader.offset =
              1688 + 44 * SrmS + 32 * SrmT + 32 * SrmV + 6 * (SrmF \div 3)

C21_Witness ==
    /\ codec = "SRM" /\ pc = "done"
    /\ SrmS = 1 /\ SrmT = 2 /\ SrmV = 2 /\ SrmF = 10
    /\ reader.offset = 1688 + 44 + 64 + 64 + 18

\* C22: a TRM decode reads magic, the shader records and T u16 texture IDs,
\* then the first zero-scan, faceCount, vertexCount, floor(F/3) face triples,
\* the second zero-scan and V vertex records of 24 bytes; after a successful
\* decode the cursor is at 20 + 44*S + 2*T + z1 + 6*floor(F/3) + z2 + 24*V.
C22_TRMSequential ==
    (codec = "TRM" /\ pc = "done") =>
        /\ mark.scan1 = 4 + 4 + 44 * SrmS + 4 + 2 * SrmT
        /\ mark.end1 = mark.scan1 + loc.zero_count
        /\ mark.face0 = mark.end1 + 4 + 4
        /\ mark.face_end = mark.face0 + 6 * (SrmF \div 3)
        /\ mark.scan2 = mark.face_end
        /\ mark.end2 = mark.scan2 + loc.zero_count_2
        /\ mark.vert0 = mark.end2
        /\ reader.offset = mark.vert0 + 24 * SrmV
        /\ reader.offset =
              20 + 44 * SrmS + 2 * SrmT + loc.zero_count
                 + 6 * (SrmF \div 3) + loc.zero_count_2 + 24 * SrmV

C22_Witness ==
    /\ codec = "TRM" /\ pc = "done"
    /\ SrmS = 1 /\ SrmT = 2 /\ SrmV >= 1 /\ SrmF >= 3
    /\ loc.zero_count > 0 /\ loc.zero_count_2 > 0
    /\ reader.offset = 20 + 44 + 4 + loc.zero_count + 6 * (SrmF \div 3)
                          + loc.zero_count_2 + 24 * SrmV

\* the layout of a vertex record: its size and the offsets of its fields
RecordSize == IF codec = "TRM" THEN 24 ELSE 32
NormalOff == IF codec = "TRM" THEN 12 ELSE 16
RecordAt(i) == mark.vert0 + RecordSize * (i - 1)
BytesAt(a, n) == SubSeq(reader.data, a + 1, a + n)
PositionAt(a) == ReaderRead([reader EXCEPT !.offset = a], Fmt(3, "f")).value

\* the i-th element of every per-vertex sequence of mesh m is taken from the
\* i-th vertex record of the stream
FromRecord(m, i) ==
    LET a == RecordAt(i)
        n == a + NormalOff
    IN  /\ m.vertices[i] = PositionAt(a)
        /\ m.normals[i] = Minus127At(n)
        /\ m.material_index[i] = reader.data[n + 3 + 1]
        /\ m.bone_indices[i] = BytesAt(n + 4, 3)
        /\ m.uv_map[i] = UVAt(n + 7, n + 11)
        /\ m.bone_weights[i] = BytesAt(n + 8, 3)
        /\ codec = "SRM" => m.tangents[i] = Minus127At(a + 12)

\* every per-vertex sequence of mesh m has length n
PerVertex(m, n) ==
    /\ Len(m.vertices) = n /\ Len(m.normals) = n /\ Len(m.uv_map) = n
    /\ Len(m.bone_indices) = n /\ Len(m.bone_weights) = n
    /\ Len(m.material_index) = n
    /\ codec = "SRM" => Len(m.tangents) = n

\* C23: after a successful SRM or TRM decode every per-vertex sequence of the
\* mesh has length vertexCount, the face list has length floor(faceCount/3),
\* the texture list has length textureCount, and the i-th element of each
\* per-vertex sequence comes from the i-th vertex record of the stream.
C23_SequenceLengths ==
    pc = "done" =>
        LET m == mesh_data[1] IN
        /\ PerVertex(m, ToInt(m.vertex_count))
        /\ Len(m.faces) = ToInt(m.face_count) \div 3
        /\ Len(m.textures) = SrmT
        /\ \A i \in 1..ToInt(m.vertex_count) : FromRecord(m, i)

C23_Witness ==
    /\ codec = "SRM" /\ pc = "done"
    /\ Len(mesh_data[1].vertices) = 2 /\ Len(mesh_data[1].tangents) = 2
    /\ Len(mesh_data[1].faces) = 3 /\ Len(mesh_data[1].textures) = 2
    /\ mesh_data[1].material_index[2] = reader.data[mark.vert0 + 32 + 19 + 1]

\* the constant byte of the i-th SRM vertex record of the stream
ConstantByte(i) == reader.data[RecordAt(i) + 15 + 1]

\* C24: after a successful SRM decode with vertexCount >= 1 the mesh's
\* constant is the constant byte of the last vertex record of the stream,
\* whatever the constant bytes of the earlier records are.
C24_ConstantIsLast ==
    (codec = "SRM" /\ pc = "done" /\ SrmV >= 1) =>
        mesh_data[1].constant = ConstantByte(SrmV)

C24_Witness ==
    /\ codec = "SRM" /\ pc = "done" /\ SrmV = 2
    /\ ConstantByte(1) # ConstantByte(2)
    /\ mesh_data[1].constant = ConstantByte(2)

Scanning == codec = "TRM" /\ pc \in {"scan1", "scan2"}

\* a finished scan that started at p ended at the first position q >= p that
\* holds a non-zero byte, or at the length of the buffer if there is none
ScanEnd(p, e) ==
    /\ e = p + ZeroRun(reader.data, p)
    /\ e <= reader.length
    /\ \A j \in p..(e - 1) : reader.data[j + 1] = 0
    /\ e < reader.length => reader.data[e + 1] # 0

ScanEndsRight ==
    codec = "TRM" =>
        /\ mark.end1 >= 0 => ScanEnd(mark.scan1, mark.end1)
        /\ mark.end2 >= 0 => ScanEnd(mark.scan2, mark.end2)

\* a step of a scan reads inside the buffer and does not raise; it either
\* ends the scan or consumes one zero byte, so that length - offset, which is
\* never negative, decreases with every pass of the loop
ScanStepInside ==
    Scanning =>
        /\ reader.offset <= reader.length
        /\ reader'.offset <= reader.length
        /\ pc' # "raised"
        /\ pc' = pc =>
               /\ reader.offset < reader.length
               /\ reader.data[reader.offset + 1] = 0
               /\ reader'.offset = reader.offset + 1
        /\ pc' # pc =>
               /\ pc' = (IF pc = "scan1" THEN "faceCount" ELSE "vertex")
               /\ reader'.offset = reader.offset

\* C25: each TRM zero scan terminates (every pass that does not end it moves
\* the cursor one byte towards the length, which it never passes), never
\* reads at an offset >= length, does not raise, and ends at the smallest
\* position q >= start whose byte is not zero, or at the length of the buffer
\* when every byte from the start on is zero or the scan starts at the end.
C25_ZeroScanTerminates == []ScanEndsRight /\ [][ScanStepInside]_vars

\* the second scan ran over zero bytes up to the end of the buffer
C25_Witness ==
    /\ codec = "TRM" /\ pc = "vertex"
    /\ loc.zero_count_2 > 0
    /\ mark.end2 = reader.length
    /\ reader.offset = reader.length

\* the file is laid out as S shader records, T texture IDs, p zero padding
\* bytes, faceCount F, vertexCount V, the face triples, q zero padding bytes
\* and the vertex records
LaidOut(S, T, p, F, V, q) == rnew.buf = TRMFile(S, T, p, F, V, q, 127)

\* the decoded faceCount is the stored one and the first vertex record is
\* read from its own first byte
PaddingOnly(S, T, p, F, V, q) ==
    /\ pc = "vertexCount" => loc.faceCount = Num(FALSE, IntDigits(F))
    /\ (pc = "vertex" /\ loc.i = 0 /\ V >= 1) =>
           reader.offset = 20 + 44 * S + 2 * T + p + 6 * (F \div 3) + q

\* C26: the TRM zero scans consume padding bytes only: for every file laid
\* out as above the decoded faceCount equals the u32 of the faceCount field
\* and the first vertex record is read starting at its own first byte, for
\* all field values, a faceCount whose first byte is zero included.
C26_ScansEatPaddingOnly ==
    (codec = "TRM" /\ (pc = "vertexCount" \/ (pc = "vertex" /\ loc.i = 0))) =>
        \A S \in {0, MaxShaders}, T \in {0, MaxTextures},
           p \in {0, 1, MaxPad}, F \in {0, 1, 3, MaxFaceCount},
           V \in {0, 1, MaxVerts}, q \in {0, MaxPad - 3} :
            LaidOut(S, T, p, F, V, q) => PaddingOnly(S, T, p, F, V, q)

\* every field of the file has been read and the vertex count is 0
ReadThroughNoVertices ==
    /\ codec = "SRM" /\ mark.face_end >= 0
    /\ loc.vertexCount = Num(FALSE, <<0>>)

\* C27: an SRM-V1 decode of a well-formed file with vertexCount = 0 completes
\* without raising and yields one mesh whose per-vertex sequences are empty.
C27_NoVerticesDecodes ==
    ReadThroughNoVertices =>
        /\ pc # "raised"
        /\ pc = "done" =>
               /\ Len(mesh_data) = 1
               /\ PerVertex(mesh_data[1], 0)

\* the record was built from the locals of a decode that read every field
BuiltAtCompletion(m) ==
    /\ mark.face_end >= 0 /\ mark.vert0 >= 0
    /\ m.vertices = loc.vertices /\ m.faces = loc.faces
    /\ m.textures = loc.textures
    /\ Len(m.vertices) = SrmV /\ Len(m.faces) = SrmF \div 3

\* C28: mesh_data is the empty list until a decode has run to completion and
\* a list of exactly the one record that decode built from then on; a decode
\* that raises, wherever in the stream, leaves it empty.
C28_NoPartialMesh ==
    /\ pc # "done" => mesh_data = <<>>
    /\ pc = "done" => Len(mesh_data) = 1 /\ BuiltAtCompletion(mesh_data[1])

\* a decode that raised in the middle of the vertex table
C28_Witness ==
    /\ pc = "raised" /\ mesh_data = <<>>
    /\ Len(loc.vertices) >= 1 /\ mark.face_end < 0

\* the importer's later `obj.data.materials[i]` for the i-th texture succeeds
SlotLookupSucceeds ==
    \A i \in 1..Len(model_data.textures) : i <= Len(scene.materials)

\* C29: after build_mesh_from_data, for any texture list (an empty one and
\* one with duplicate names included) the object has exactly one material
\* slot per texture, in texture order, and every polygon's material_index is
\* a valid slot index, so that the lookup of slot i for the i-th texture
\* succeeds.
C29_SlotPerTexture ==
    bpc = "done" =>
        /\ Len(scene.materials) = Len(model_data.textures)
        /\ \A i \in 1..Len(scene.materials) :
               scene.materials[i] = Printable(model_data.textures[i])
        /\ \A k \in 1..Len(scene.polygons) :
               /\ 0 <= scene.polygons[k].material_index
               /\ scene.polygons[k].material_index < Len(scene.materials)
        /\ SlotLookupSucceeds

\* every scalar and vector read method has a Writer method of its name that
\* packs the format the Reader unpacks
SameMethods ==
    \A k \in 1..Len(ReaderDefs) :
        /\ HasMethod(WriterDefs, ReaderDefs[k].name)
        /\ Method(WriterDefs, ReaderDefs[k].name).fmt
               = Method(ReaderDefs, ReaderDefs[k].name).fmt

AllIn(t, lo, hi) == \A j \in 1..Len(t) : lo <= t[j] /\ t[j] <= hi

\* the Reader method `name` on the bytes the last call wrote returns its
\* argument
ReadsBack(name) ==
    LET x == ReaderRead(NewReader(wcall.packed, writer.is_LE),
                        Method(ReaderDefs, name).fmt)
    IN  ~wcall.raised /\ ~x.raised /\ x.value = wcall.args

\* C30: Writer mirrors Reader method by method: every scalar and vector read
\* method has a Writer method of the same name and format; vec3sb(v) read
\* back by Reader.vec3sb() returns v for components in -128..127, and
\* Writer.vec3ub exists and does the same for components in 0..255.
C30_WriterMirrorsReader ==
    wcall.op \in {"vec3sb", "vec3ub"} =>
        /\ SameMethods
        /\ (wcall.op = "vec3sb" /\ AllIn(wcall.args, 0 - 128, 127)) =>
               ReadsBack("vec3sb")
        /\ (wcall.op = "vec3ub" /\ AllIn(wcall.args, 0, 255)) =>
               ReadsBack("vec3ub")

====
